---- MODULE Spec2Model ----
(***************************************************************************)
(* Verification model of stormdl.                                          *)
(*                                                                         *)
(* Part I  (specification Spec / FairSpec): the segmented download of the  *)
(*   command line, src/src/cli.rs download_segmented_adaptive: work queue, *)
(*   initial workers, helper workers started by the spawner, the           *)
(*   rebalancer ("work stealing") and the joining main task.               *)
(*   File offsets and byte counts are in units of 256 KiB, the granularity *)
(*   of the rebalancer's thresholds (512 KiB = 2 units, 256 KiB = 1 unit). *)
(*   Wall-clock time is not modelled: a speed sample is any value the      *)
(*   code's formula can yield for the bytes counted since the sample.      *)
(*   WorkersSpec is the same download with every helper the spawner can    *)
(*   start, in the runs where the rebalance task steals nothing.           *)
(*                                                                         *)
(* Part II (specification OrchSpec): the orchestrator of the GUI,          *)
(*   src/src/orchestrator.rs: command handler, event bus, run_download.    *)
(*   Sizes are in units of 500,000 bytes (1,000,000 bytes = 2 units).      *)
(*                                                                         *)
(* Part III (specification MgrSpec): SegmentManager,                       *)
(*   crates/storm-segment/src/manager.rs: constructors, update_segment,    *)
(*   mark_complete, mark_error, split_segment. Sizes are in bytes.         *)
(*                                                                         *)
(* Part IV (specification SplitSpec): split_range,                         *)
(*   crates/storm-segment/src/splitter.rs, on every pair of arguments      *)
(*   within the bounds.                                                    *)
(*                                                                         *)
(* Part V (specification ProtoSpec): the requests of the downloaders,      *)
(*   crates/storm-protocol/src/http.rs and h3.rs: the Range header of      *)
(*   probe and fetch_range, and fetch_range's handling of the response.    *)
(*                                                                         *)
(* Part VI (specification PoolSpec): ConnectionPool,                       *)
(*   crates/storm-protocol/src/pool.rs, with the default PoolConfig:       *)
(*   acquire, release, set_http2, can_connect, each under the pool's       *)
(*   mutex.                                                                *)
(*                                                                         *)
(* Part VII (specification MsSpec): MultiSourceManager,                    *)
(*   crates/storm-segment/src/multi_source.rs, over a MirrorSet,           *)
(*   crates/storm-core/src/mirror.rs: assign_segment, reassign_segment,    *)
(*   record_progress, record_error, complete_segment, sync_mirror_stats,   *)
(*   called one after the other. Scores are computed exactly, as           *)
(*   fractions.                                                            *)
(*                                                                         *)
(* Part VIII (specification ScoreSpec): the two mirror scores, of          *)
(*   MirrorSet::best_mirror and of reassign_segment, on every pair of      *)
(*   inputs within the bounds that differ in one input.                    *)
(*                                                                         *)
(* Part IX (specification CtlSpec): AdaptiveController,                    *)
(*   crates/storm-segment/src/controller.rs: evaluate, which loads         *)
(*   current_segments and stores it later, and record_split, which may     *)
(*   run in between. Sizes are in bytes.                                   *)
(*                                                                         *)
(* Part X (specification IdSpec): next_download_id and the insert of       *)
(*   add_download, src/orchestrator.rs, for several orchestrators of one   *)
(*   process running at the same time: they share the static NEXT_ID.      *)
(*                                                                         *)
(* Part XI (specification LimSpec): RateLimiter,                           *)
(*   crates/storm-bandwidth/src/limiter.rs: new, set_limit, is_limited,    *)
(*   try_acquire, acquire. A limit is kept as the digits of bps / 16384    *)
(*   in base 2^32, so that the cast to u32 is the low digit.               *)
(*                                                                         *)
(* Part XII (specification RebSpec): Rebalancer,                           *)
(*   crates/storm-segment/src/rebalancer.rs, over the SegmentManager of    *)
(*   Part III: check_and_rebalance_with_bdp between the manager's calls.   *)
(*   RebRunSpec starts from a manager of four segments; RebSplitSpec has   *)
(*   the caller's own split_segment calls between the passes.              *)
(*                                                                         *)
(* Part XIII (specification DqSpec): DownloadQueue,                        *)
(*   crates/storm-bandwidth/src/scheduler.rs: enqueue, reorder, cancel and *)
(*   complete, each under one lock, and dequeue, which reads active_count  *)
(*   and later pops and increments, for several callers at one time.       *)
(***************************************************************************)
EXTENDS Integers, Sequences, FiniteSets, TLC

\* ------------------------------------------------------------------ bounds
\* Part I inputs: total_size (in 256 KiB units) and num_segments.
TotalSize == 8
NumSegments == 2
\* Helper workers the spawner may start in one run (the code's own limit is
\* max_workers, see MaxWorkers).
MaxHelpers == 2
\* Largest chunk (in units) one sink.write call receives from the stream.
MaxChunk == 1
\* Number of fetch_range calls that may fail in one run.
MaxFailures == 1
\* Passes of the rebalance loop in one run (the loop itself runs until done).
MaxPasses == 1
\* Part II: downloads added, commands handled, progress ticks that send
\* events (per download), download_segment tasks that fail.
MaxDownloads == 1
MaxCommands == 2
MaxTicks == 1
MaxTaskFailures == 1
\* Part III: SegmentManager calls after construction, and the largest
\* num_segments / max_segments given to a constructor.
MaxOps == 3
MaxInitSegments == 2
\* The largest speed update_segment reports.
MaxSpeed == 1024
\* Part IV: the largest arguments of split_range.
MaxSplitTotal == 100
MaxSplitSegments == 5

\* Part V: the largest total_size and segment count given to the planner,
\* and the most body chunks one response delivers.
MaxPlanTotal == 3
MaxPlanSegments == 4
MaxChunks == 2

\* Part VII: mirrors in the set, segments, calls on the manager in one run,
\* and the largest speed sample.
MaxMirrors == 3
MaxMsSegments == 2
MaxMsOps == 3
MaxSample == 4

\* Part VIII: the largest speed numerator, error count and active count
\* given to the scores.
MaxScoreSpeed == 3
MaxScoreErrors == 2
MaxScoreActive == 2

\* Part IX: calls on the controller in one run, and the largest
\* max_segments given to with_config.
MaxCtlOps == 3
MaxCtlSegments == 6

\* Part X: orchestrators in the process, and add_download calls in all.
NumOrchestrators == 3
MaxIdAdds == 4

\* Part XI: calls on the limiter in one run, and the largest digit of a
\* limit.
MaxLimOps == 3
MaxLimDigit == 2

\* Part XIII: callers of dequeue at one time, download ids, the largest
\* max_concurrent, and calls on the queue in one run.
NumDequeuers == 2
MaxDqIds == 2
MaxConcurrent == 2
MaxDqOps == 4

\* ------------------------------------------------------- program constants
\* RateLimiter: chunk_size.
ChunkSize == 16384

\* evaluate: tcp_window, and the most segments one adjustment adds.
TcpWindow == 65536
MaxSegmentsToAdd == 4

\* speed_samples keeps the last 10 samples.
SampleCap == 10
\* The constant added to the speed in reassign_segment's score.
Epsilon == 1

\* PoolConfig::default(): per_host_limit and per_host_limit_h2.
PerHostLimit == 6
PerHostLimitH2 == 2

\* remaining > 512 * 1024, in 256 KiB units.
StealMinRemaining == 2
\* end > current_pos + 256 * 1024, in 256 KiB units.
StealMinGap == 1
\* threshold = avg_speed * 0.3, as the fraction ThresholdNum / ThresholdDen.
ThresholdNum == 3
ThresholdDen == 10
\* max_workers = num_segments + 4 (without turbo).
Slack == 4
\* initial_segments: 1,000,000 and 10,000,000 bytes, in 500,000 byte units.
SmallFile == 2
MediumFile == 20

\* -------------------------------------------------------------- helpers
\* u64::saturating_sub
SatSub(a, b) == IF a >= b THEN a - b ELSE 0

\* ByteRange::len
RangeLen(r) == SatSub(r.end, r.start)

RECURSIVE SplitRangeFromOffByOne(_, _, _, _, _)
\* The loop of split_range with the off-by-one test i <= remainder.
SplitRangeFromOffByOne(i, n, offset, segment_size, remainder) ==
    IF i >= n THEN << >>
    ELSE LET extra == IF i <= remainder THEN 1 ELSE 0
             size  == segment_size + extra
         IN  << [start |-> offset, end |-> offset + size] >>
             \o SplitRangeFromOffByOne(i + 1, n, offset + size, segment_size,
                                       remainder)

RECURSIVE SplitRangeFrom(_, _, _, _, _)
\* The loop of split_range: ranges i..n-1, starting at offset.
SplitRangeFrom(i, n, offset, segment_size, remainder) ==
    IF i >= n THEN << >>
    ELSE LET extra == IF i < remainder THEN 1 ELSE 0
             size  == segment_size + extra
         IN  << [start |-> offset, end |-> offset + size] >>
             \o SplitRangeFrom(i + 1, n, offset + size, segment_size, remainder)

\* split_range that forgets the remainder.
SplitRangeNoRemainder(total_size, num_segments) ==
    IF num_segments = 0 \/ total_size = 0 THEN << >>
    ELSE SplitRangeFrom(0, num_segments, 0, total_size \div num_segments, 0)

\* split_range without the early return for total_size = 0.
SplitRangeNoZeroCheck(total_size, num_segments) ==
    IF num_segments = 0 THEN << >>
    ELSE SplitRangeFrom(0, num_segments, 0,
                        total_size \div num_segments, total_size % num_segments)

\* split_range(total_size, num_segments)
SplitRange(total_size, num_segments) ==
    IF num_segments = 0 \/ total_size = 0 THEN << >>
    ELSE SplitRangeFrom(0, num_segments, 0,
                        total_size \div num_segments, total_size % num_segments)

RECURSIVE SumOver(_, _)
SumOver(f, S) ==
    IF S = {} THEN 0
    ELSE LET x == CHOOSE y \in S : TRUE IN f[x] + SumOver(f, S \ {x})

\* ====================================================================
\* Part I: download_segmented_adaptive
\* ====================================================================

\* manager.get_segments(): the ranges of SegmentManager::with_segments.
\* Segment index i (0-based, as in the code) is Segments[i + 1].
Segments == SplitRange(TotalSize, NumSegments)
Segs == 0 .. (Len(Segments) - 1)
SegRange(i) == Segments[i + 1]

Offsets == 0 .. (TotalSize - 1)

\* The handles vector: one initial worker per segment; helpers come after.
InitialWorkers == 1 .. NumSegments
\* The helpers of one run: as many as the bounds let the spawner start.
HelperSlots == IF MaxHelpers > Slack + 1 THEN MaxHelpers ELSE Slack + 1
HelperWorkers == (NumSegments + 1) .. (NumSegments + HelperSlots)
Workers == InitialWorkers \cup HelperWorkers

MaxWorkers == NumSegments + Slack

\* Content of the remote resource at an offset, and an unwritten file cell
\* (the file is pre-sized with set_len, which leaves a hole).
ResourceByte(o) == o + 1
Hole == 0

NoItem == [start |-> 0, end |-> 0, seg |-> 0, id |-> 0]

\* Errors of fetch_range: before the first chunk (send error or status),
\* and while streaming.
StatusErrors == {"RateLimited", "RangeNotSupported"}
StreamErrors == {"Network"}

\* Values a speed sample can take when bytes were counted since the sample.
SpeedVals == {1, 10}

VARIABLES
    \* --- Part I
    trk_downloaded,    \* SegmentTracker.downloaded, per segment
    remaining_start,   \* SegmentTracker.remaining_start, per segment
    last_bytes,        \* SegmentTracker.last_progress.0, per segment
    global_downloaded, \* downloaded (AtomicU64)
    segment_progress,  \* segment_progress[i].0
    queue,             \* WorkQueue.ranges
    pushed,            \* history: every work item ever pushed
    file,              \* output file: offset -> byte
    writers,           \* history: offset -> ids of the work items that wrote it
    wpc,               \* worker position
    witem,             \* the work item a worker is fetching
    wwritten,          \* AdaptiveSink.written
    active_workers,    \* active_workers (AtomicU64)
    done,              \* done (AtomicBool)
    errors,            \* tracing::error! lines: (segment, error kind)
    nfail,             \* number of failed fetches so far
    rpc,               \* rebalancer position
    ridx,              \* rebalancer: index of the steal loop
    speeds,            \* rebalancer: speeds vector of this pass
    threshold,         \* rebalancer: sum and count of the active speeds
    npasses,           \* rebalancer: passes started so far
    spc,               \* spawner position
    nhelpers,          \* helper workers spawned
    mpc,               \* main task position
    \* --- Part II
    next_id,           \* NEXT_ID
    downloads,         \* Orchestrator.downloads: id -> DownloadTask.state
    events,            \* the event bus: every event sent, in send order
    ncommands,         \* commands handled so far
    run_pc,            \* run_download: position, per id
    total_size,        \* run_download: total_size, per id
    osegments,         \* run_download: segments (ranges), per id
    seg_status,        \* the spawned download_segment tasks, per id and index
    segment_downloaded,\* run_download: segment_downloaded counters
    odownloaded,       \* run_download: downloaded counter
    jidx,              \* run_download: handles awaited so far
    has_error,         \* run_download: has_error
    ppc,               \* progress task position, per id
    nticks,            \* progress task: ticks taken, per id
    ofail,             \* download_segment tasks that ended in an error or panic
    probed,            \* run_download: info, the probe's answer, per id
    requests,          \* history: the body requests sent to the server, per id
    \* --- Part III
    mgr_pc,            \* SegmentManager: "none", "built" (no segments yet), "ready"
    msegments,         \* SegmentManager.segments
    mtotal_size,       \* SegmentManager.total_size
    min_segment_size,  \* SegmentManager.min_segment_size
    max_segments,      \* SegmentManager.max_segments
    last_call,         \* the last SegmentManager call: operation, id, return value
    nops,              \* SegmentManager calls made so far
    \* --- Part IV
    sr_total,          \* split_range: argument total_size
    sr_n,              \* split_range: argument num_segments
    sr_pc,             \* split_range: "call" before, "done" after the call
    sr_ranges,         \* split_range: the returned Vec<ByteRange>
    \* --- Part V
    req,               \* the call under study: operation, protocol, range
    header,            \* the Range header of the request sent
    fpc,               \* position of the call
    fstatus,           \* status of the response
    arrived,           \* body chunks received so far, in arrival order
    sink,              \* the calls made on the DataSink, in order
    fresult,           \* the call's return value
    \* --- Part VI
    hosts,             \* ConnectionPool.hosts: the HostState of each host, or none
    pool_call,         \* the last call on the pool and its return value
    \* --- Part VII
    mirrors,           \* MirrorSet.mirrors: the priority of each mirror, by index
    mirror_stats,      \* MirrorSet.stats: the MirrorStats of each index, or none
    segment_assignments,\* MultiSourceManager: the source of each segment, or none
    source_stats,      \* MultiSourceManager: the SourceStats of each index, or none
    ms_call,           \* the last call on the manager and its return value
    ms_nops,           \* calls made so far
    \* --- Part VIII
    sc_in,             \* the score's inputs: speed, errors, active, priority
    sc_pc,             \* "call" before, "done" after the scores are computed
    sc_out,            \* the input raised, and the scores before and after
    \* --- Part IX
    ctl,               \* AdaptiveController: file_size, max_segments, min_segment_size
    current_segments,  \* AdaptiveController.current_segments
    interval_elapsed,  \* adjustment_interval has passed since last_adjustment
    ev_pc,             \* evaluate: "idle", or "loaded" between its load and its store
    ev_local,          \* evaluate: its locals current and bdp
    ctl_ret,           \* the last call on the controller and its return value
    ctl_nops,          \* calls returned so far
    \* --- Part X
    NEXT_ID,           \* the static NEXT_ID
    id_local,          \* add_download of each orchestrator: its local id, or none
    id_downloads,      \* each orchestrator's downloads map: id -> state
    id_log,            \* the ids returned by next_download_id, in the order of the fetch_adds
    \* --- Part XI
    limiter,           \* RateLimiter.limiter: the quota in chunks per second, or none
    bytes_per_second,  \* RateLimiter.bytes_per_second
    ready_permits,     \* permits the limiter can hand out now
    lim_pc,            \* "idle", or "acquiring" inside acquire
    lim_call,          \* the current or last call: arguments, permits taken, return value
    lim_nops,          \* calls made so far
    \* --- Part XII
    rb,                \* Rebalancer: slow_threshold_pct, min_segment_size, max_segments
    rb_ret,            \* check_and_rebalance: the ids returned by the last call
    \* --- Part XIII
    dq_queue,          \* DownloadQueue.queue: id, priority and the order of insertion (history)
    dq_max,            \* DownloadQueue.max_concurrent
    dq_active,         \* DownloadQueue.active_count
    dq_pc,             \* dequeue of each caller: idle, or checked after its test of active_count
    dq_call,           \* the last call returned: operation, id, return value
    dq_seq,            \* insertions made so far (history)
    dq_nops            \* calls started so far

counterVars == << trk_downloaded, global_downloaded, segment_progress >>
fileVars == << file, writers >>
queueVars == << queue, pushed >>
workerVars == << wpc, witem, wwritten >>
rebalanceVars == << remaining_start, last_bytes, rpc, ridx, speeds, threshold,
                   npasses >>
controlVars == << active_workers, done, spc, nhelpers, mpc >>
errorVars == << errors, nfail >>

cliVars == << counterVars, fileVars, queueVars, workerVars, rebalanceVars,
              controlVars, errorVars >>

orchVars == << next_id, downloads, events, ncommands, run_pc, total_size,
               osegments, seg_status, segment_downloaded, odownloaded, jidx,
               has_error, ppc, nticks, ofail, probed, requests >>

mgrVars == << mgr_pc, msegments, mtotal_size, min_segment_size, max_segments,
              last_call, nops >>

splitVars == << sr_total, sr_n, sr_pc, sr_ranges >>

protoVars == << req, header, fpc, fstatus, arrived, sink, fresult >>

poolVars == << hosts, pool_call >>

msVars == << mirrors, mirror_stats, segment_assignments, source_stats,
             ms_call, ms_nops >>

scoreVars == << sc_in, sc_pc, sc_out >>

ctlVars == << ctl, current_segments, interval_elapsed, ev_pc, ev_local,
              ctl_ret, ctl_nops >>

idVars == << NEXT_ID, id_local, id_downloads, id_log >>

limVars == << limiter, bytes_per_second, ready_permits, lim_pc, lim_call,
             lim_nops >>

rebVars == << rb, rb_ret >>

dqVars == << dq_queue, dq_max, dq_active, dq_pc, dq_call, dq_seq, dq_nops >>

\* What the steps of one part leave alone: the variables of the other parts.
outsideCli == << orchVars, mgrVars, splitVars, protoVars, poolVars, msVars,
                 scoreVars, ctlVars, idVars, limVars, rebVars, dqVars >>
outsideOrch == << cliVars, mgrVars, splitVars, protoVars, poolVars, msVars,
                  scoreVars, ctlVars, idVars, limVars, rebVars, dqVars >>
outsideMgr == << cliVars, orchVars, splitVars, protoVars, poolVars, msVars,
                 scoreVars, ctlVars, idVars, limVars, rebVars, dqVars >>
outsideSplit == << cliVars, orchVars, mgrVars, protoVars, poolVars, msVars,
                   scoreVars, ctlVars, idVars, limVars, rebVars, dqVars >>
outsideProto == << cliVars, orchVars, mgrVars, splitVars, poolVars, msVars,
                   scoreVars, ctlVars, idVars, limVars, rebVars, dqVars >>
outsidePool == << cliVars, orchVars, mgrVars, splitVars, protoVars, msVars,
                  scoreVars, ctlVars, idVars, limVars, rebVars, dqVars >>
outsideMs == << cliVars, orchVars, mgrVars, splitVars, protoVars, poolVars,
                scoreVars, ctlVars, idVars, limVars, rebVars, dqVars >>
outsideScore == << cliVars, orchVars, mgrVars, splitVars, protoVars,
                   poolVars, msVars, ctlVars, idVars, limVars, rebVars,
                   dqVars >>
outsideCtl == << cliVars, orchVars, mgrVars, splitVars, protoVars, poolVars,
                 msVars, scoreVars, idVars, limVars, rebVars, dqVars >>
outsideId == << cliVars, orchVars, mgrVars, splitVars, protoVars, poolVars,
                msVars, scoreVars, ctlVars, limVars, rebVars, dqVars >>
outsideLim == << cliVars, orchVars, mgrVars, splitVars, protoVars, poolVars,
                 msVars, scoreVars, ctlVars, idVars, rebVars, dqVars >>
outsideReb == << cliVars, orchVars, mgrVars, splitVars, protoVars, poolVars,
                 msVars, scoreVars, ctlVars, idVars, limVars, dqVars >>
outsideDq == << cliVars, orchVars, mgrVars, splitVars, protoVars, poolVars,
                msVars, scoreVars, ctlVars, idVars, limVars, rebVars >>

vars == << cliVars, orchVars, mgrVars, splitVars, protoVars, poolVars,
           msVars, scoreVars, ctlVars, idVars, limVars, rebVars, dqVars >>

\* SegmentTracker::remaining
TrackerRemaining(i) == SatSub(RangeLen(SegRange(i)), trk_downloaded[i])

\* SegmentTracker::is_complete
IsComplete(i) == trk_downloaded[i] >= RangeLen(SegRange(i))

\* trackers.iter().all(|t| t.is_complete())
AllComplete == \A i \in Segs : IsComplete(i)

\* SegmentTracker.active is set at construction and never stored again.
TrackerActive(i) == TRUE

\* The tokio runtime lives until download() returns; tasks still running
\* then are dropped with it.
RuntimeAlive == mpc # "returned"

\* State after the set-up of download_segmented_adaptive: trackers created,
\* every segment range pushed, all tasks spawned.
CliInit ==
    /\ trk_downloaded = [i \in Segs |-> 0]
    /\ remaining_start = [i \in Segs |-> SegRange(i).start]
    /\ last_bytes = [i \in Segs |-> 0]
    /\ global_downloaded = 0
    /\ segment_progress = [i \in Segs |-> 0]
    /\ queue = [k \in 1 .. Len(Segments) |->
                  [start |-> Segments[k].start, end |-> Segments[k].end,
                   seg |-> k - 1, id |-> k]]
    /\ pushed = [k \in 1 .. Len(Segments) |->
                  [start |-> Segments[k].start, end |-> Segments[k].end,
                   seg |-> k - 1]]
    /\ file = [o \in Offsets |-> Hole]
    /\ writers = [o \in Offsets |-> {}]
    /\ wpc = [w \in Workers |-> IF w \in InitialWorkers THEN "pop" ELSE "unspawned"]
    /\ witem = [w \in Workers |-> NoItem]
    /\ wwritten = [w \in Workers |-> 0]
    /\ active_workers = NumSegments
    /\ done = FALSE
    /\ errors = {}
    /\ nfail = 0
    /\ rpc = "sample"
    /\ ridx = 0
    /\ speeds = [i \in Segs |-> 0]
    /\ threshold = [sum |-> 0, n |-> 0]
    /\ npasses = 0
    /\ spc = "loop"
    /\ nhelpers = 0
    /\ mpc = "join"

\* ----------------------------------------------------------- work queue
\* WorkQueue::push, with the history of pushed items.
QueuePush(range, seg) ==
    /\ queue' = Append(queue, [start |-> range.start, end |-> range.end,
                               seg |-> seg, id |-> Len(pushed) + 1])
    /\ pushed' = Append(pushed, [start |-> range.start, end |-> range.end,
                                 seg |-> seg])

\* WorkQueue::pop with pop_back in place of pop_front.
PopBack(q) ==
    [item |-> q[Len(q)], rest |-> SubSeq(q, 1, Len(q) - 1)]

\* WorkQueue::pop on a non-empty queue: pop_front.
PopFront(q) == [item |-> Head(q), rest |-> Tail(q)]

\* ---------------------------------------------------------------- workers
\* queue.pop() returns Some((range, seg_idx)): download_range opens the file,
\* seeks to range.start and starts fetch_range.
WorkerPopSome(w) ==
    /\ RuntimeAlive
    /\ wpc[w] = "pop"
    /\ queue # << >>
    /\ witem' = [witem EXCEPT ![w] = PopFront(queue).item]
    /\ queue' = PopFront(queue).rest
    /\ wwritten' = [wwritten EXCEPT ![w] = 0]
    /\ wpc' = [wpc EXCEPT ![w] = "fetch"]
    /\ UNCHANGED << counterVars, fileVars, pushed, rebalanceVars, controlVars, errorVars >>
    /\ UNCHANGED outsideCli

\* The exit test of the None arm: an initial worker leaves when
\* (done || queue.is_empty()) and all trackers are complete; a helper
\* when done, or when all trackers are complete.
WorkerExitTest(w) ==
    IF w \in InitialWorkers
    THEN (done \/ queue = << >>) /\ AllComplete
    ELSE done \/ AllComplete

\* queue.pop() returns None and the exit test holds: the worker breaks out
\* of its loop and decrements active_workers. (When the test fails the
\* worker sleeps 50 ms and pops again, which changes nothing.)
WorkerExit(w) ==
    /\ RuntimeAlive
    /\ wpc[w] = "pop"
    /\ queue = << >>
    /\ WorkerExitTest(w)
    /\ wpc' = [wpc EXCEPT ![w] = "exited"]
    /\ active_workers' = active_workers - 1
    /\ UNCHANGED << counterVars, fileVars, queueVars, witem, wwritten, rebalanceVars,
                    done, spc, nhelpers, mpc, errorVars >>
    /\ UNCHANGED outsideCli

\* The file cells one chunk of n units covers: the sink writes at the
\* position the file was seeked to plus what it has written so far.
ChunkOffsets(w, n) ==
    { o \in Offsets : /\ o >= witem[w].start + wwritten[w]
                      /\ o < witem[w].start + wwritten[w] + n }

\* AdaptiveSink::write for a chunk of n units of the requested range.
SinkWrite(w, n) ==
    LET seg == witem[w].seg
        cells == ChunkOffsets(w, n)
    IN  /\ file' = [o \in Offsets |-> IF o \in cells THEN ResourceByte(o) ELSE file[o]]
        /\ writers' = [o \in Offsets |->
                         IF o \in cells THEN writers[o] \cup {witem[w].id} ELSE writers[o]]
        /\ global_downloaded' = global_downloaded + n
        /\ trk_downloaded' = [trk_downloaded EXCEPT ![seg] = @ + n]
        /\ wwritten' = [wwritten EXCEPT ![w] = @ + n]
        /\ segment_progress' = [segment_progress EXCEPT ![seg] = trk_downloaded[seg] + n]

\* fetch_range: the next chunk of the 206 response arrives and is written.
WorkerWrite(w) ==
    /\ RuntimeAlive
    /\ wpc[w] = "fetch"
    /\ \E n \in 1 .. MaxChunk :
          /\ wwritten[w] + n <= RangeLen(witem[w])
          /\ SinkWrite(w, n)
    /\ UNCHANGED << queueVars, wpc, witem, rebalanceVars, controlVars, errorVars >>
    /\ UNCHANGED outsideCli

\* fetch_range: the stream ends after the whole range, the sink is flushed,
\* download_range returns Ok and the worker loops.
WorkerFetchOk(w) ==
    /\ RuntimeAlive
    /\ wpc[w] = "fetch"
    /\ wwritten[w] = RangeLen(witem[w])
    /\ wpc' = [wpc EXCEPT ![w] = "pop"]
    /\ witem' = [witem EXCEPT ![w] = NoItem]
    /\ wwritten' = [wwritten EXCEPT ![w] = 0]
    /\ UNCHANGED << counterVars, fileVars, queueVars, rebalanceVars, controlVars,
                    errorVars >>
    /\ UNCHANGED outsideCli

\* The Err arm of the worker loop: the error is logged and the worker loops.
WorkerOnError(w, kind) ==
    /\ errors' = errors \cup {[seg |-> witem[w].seg, kind |-> kind]}
    /\ wpc' = [wpc EXCEPT ![w] = "pop"]
    /\ witem' = [witem EXCEPT ![w] = NoItem]
    /\ wwritten' = [wwritten EXCEPT ![w] = 0]
    /\ UNCHANGED << queue, pushed >>

\* fetch_range returns an error: a status error before the first chunk, or a
\* Network error at any point before the stream ends.
WorkerFetchErr(w) ==
    /\ RuntimeAlive
    /\ wpc[w] = "fetch"
    /\ nfail < MaxFailures
    /\ wwritten[w] < RangeLen(witem[w])
    /\ \E kind \in StatusErrors \cup StreamErrors :
          /\ kind \in StatusErrors => wwritten[w] = 0
          /\ WorkerOnError(w, kind)
    /\ nfail' = nfail + 1
    /\ UNCHANGED << counterVars, fileVars, rebalanceVars, controlVars >>
    /\ UNCHANGED outsideCli

\* ------------------------------------------------------------- rebalancer
\* Loop head of the rebalance task: leave when done is set, else
\* update_speed_sample() on every tracker.
RebalanceSample ==
    /\ rpc = "sample"
    /\ IF done
       THEN /\ rpc' = "exited"
            /\ UNCHANGED << last_bytes, npasses >>
       ELSE /\ npasses < MaxPasses
            /\ rpc' = "speeds"
            /\ last_bytes' = trk_downloaded
            /\ npasses' = npasses + 1
    /\ UNCHANGED << counterVars, fileVars, queueVars, workerVars, remaining_start,
                    ridx, speeds, threshold, controlVars, errorVars >>
    /\ UNCHANGED outsideCli

\* SegmentTracker::speed for every tracker: 0.0 when no more than 0.5 s have
\* passed since the sample or no byte was counted since, else the bytes
\* counted since the sample divided by the elapsed time.
SpeedSamples ==
    { sp \in [Segs -> {0} \cup SpeedVals] :
         \A i \in Segs : sp[i] > 0 => trk_downloaded[i] > last_bytes[i] }

\* The trackers whose speed enters active_speeds.
ActiveSegs == { i \in Segs : TrackerActive(i) /\ ~IsComplete(i) }

\* speeds and active_speeds are collected; with more than one active speed
\* the steal loop runs, else the task sleeps 500 ms.
RebalanceSpeeds ==
    /\ rpc = "speeds"
    /\ \E sp \in SpeedSamples :
          IF Cardinality(ActiveSegs) > 1
          THEN /\ speeds' = sp
               /\ threshold' = [sum |-> SumOver(sp, ActiveSegs),
                                 n |-> Cardinality(ActiveSegs)]
               /\ ridx' = 0
               /\ rpc' = "steal"
          ELSE /\ rpc' = "sample"
               /\ UNCHANGED << speeds, threshold, ridx >>
    /\ UNCHANGED << counterVars, fileVars, queueVars, workerVars, remaining_start,
                    last_bytes, npasses, controlVars, errorVars >>
    /\ UNCHANGED outsideCli

\* speed < threshold, where threshold = avg_speed * 0.3 and
\* avg_speed = sum / n.
BelowThreshold(speed) ==
    speed * threshold.n * ThresholdDen < ThresholdNum * threshold.sum

\* The condition under which the loop body considers tracker idx slow.
IsSlow(idx) ==
    /\ speeds[idx] > 0
    /\ BelowThreshold(speeds[idx])
    /\ TrackerRemaining(idx) > StealMinRemaining
    /\ TrackerActive(idx)

\* current_pos = remaining_start + downloaded
CurrentPos(idx) == remaining_start[idx] + trk_downloaded[idx]

\* split_point = current_pos + (end - current_pos) / 2
SplitPoint(idx) ==
    CurrentPos(idx) + ((SegRange(idx).end - CurrentPos(idx)) \div 2)

\* One iteration of the steal loop, for tracker ridx; after the last tracker
\* the task sleeps 500 ms.
RebalanceSteal ==
    /\ rpc = "steal"
    /\ IF IsSlow(ridx) /\ SegRange(ridx).end > CurrentPos(ridx) + StealMinGap
       THEN /\ remaining_start' = [remaining_start EXCEPT ![ridx] = SplitPoint(ridx)]
            /\ QueuePush([start |-> SplitPoint(ridx), end |-> SegRange(ridx).end], ridx)
       ELSE UNCHANGED << remaining_start, queueVars >>
    /\ IF ridx + 1 < Len(Segments)
       THEN /\ ridx' = ridx + 1
            /\ UNCHANGED << rpc, speeds, threshold >>
       ELSE /\ ridx' = 0
            /\ rpc' = "sample"
            /\ speeds' = [i \in Segs |-> 0]
            /\ threshold' = [sum |-> 0, n |-> 0]
    /\ UNCHANGED << counterVars, fileVars, workerVars, last_bytes, npasses,
                    controlVars, errorVars >>
    /\ UNCHANGED outsideCli

\* ---------------------------------------------------------------- spawner
\* The spawner leaves its loop when done is set or all trackers are complete.
SpawnerExit ==
    /\ spc = "loop"
    /\ done \/ AllComplete
    /\ spc' = "exited"
    /\ UNCHANGED << counterVars, fileVars, queueVars, workerVars, rebalanceVars,
                    active_workers, done, nhelpers, mpc, errorVars >>
    /\ UNCHANGED outsideCli

\* current_workers <= max_workers
BelowMaxWorkersOffByOne(current_workers) == current_workers <= MaxWorkers

\* current_workers < max_workers
BelowMaxWorkers(current_workers) == current_workers < MaxWorkers

\* has_work && current_workers < max_workers: a helper worker is started,
\* while fewer than cap helpers have been started in this run.
SpawnHelper(cap) ==
    /\ spc = "loop"
    /\ ~done
    /\ ~AllComplete
    /\ queue # << >>
    /\ BelowMaxWorkers(active_workers)
    /\ nhelpers < cap
    /\ active_workers' = active_workers + 1
    /\ nhelpers' = nhelpers + 1
    /\ wpc' = [wpc EXCEPT ![NumSegments + nhelpers + 1] = "pop"]
    /\ UNCHANGED << counterVars, fileVars, queueVars, witem, wwritten, rebalanceVars,
                    done, spc, mpc, errorVars >>
    /\ UNCHANGED outsideCli

\* The spawner's step with at most MaxHelpers helpers in one run.
SpawnerSpawn == SpawnHelper(MaxHelpers)

\* The spawner's step with every helper of the run available.
SpawnerSpawnAny == SpawnHelper(HelperSlots)

\* ------------------------------------------------------------------- main
\* Every handle of the initial workers has been awaited: done is stored.
MainJoin ==
    /\ mpc = "join"
    /\ \A w \in InitialWorkers : wpc[w] = "exited"
    /\ done' = TRUE
    /\ mpc' = "await"
    /\ UNCHANGED << counterVars, fileVars, queueVars, workerVars, rebalanceVars,
                    active_workers, spc, nhelpers, errorVars >>
    /\ UNCHANGED outsideCli

\* The rebalance and spawner handles have been awaited: Ok(()) is returned.
MainReturn ==
    /\ mpc = "await"
    /\ rpc = "exited"
    /\ spc = "exited"
    /\ mpc' = "returned"
    /\ UNCHANGED << counterVars, fileVars, queueVars, workerVars, rebalanceVars,
                    active_workers, done, spc, nhelpers, errorVars >>
    /\ UNCHANGED outsideCli

\* ====================================================================
\* Part II: the orchestrator
\* ====================================================================

Ids == 1 .. MaxDownloads

\* Option<u64>
None == [some |-> FALSE, val |-> 0]
Some(v) == [some |-> TRUE, val |-> v]
UnwrapOr(opt, d) == IF opt.some THEN opt.val ELSE d

\* The ResourceInfo fields run_download reads, for the probes of the model:
\* no size, 1,000,000 bytes and 2,000,000 bytes, with and without ranges.
ProbeInfos ==
    { [size |-> sz, supports_range |-> sr] :
        sz \in {None, Some(SmallFile), Some(2 * SmallFile)}, sr \in BOOLEAN }

\* info before the probe has answered.
NoInfo == [size |-> None, supports_range |-> FALSE, probed |-> FALSE]

\* initial_segments(file_size)
InitialSegments(file_size) ==
    IF file_size <= SmallFile THEN 1
    ELSE IF file_size <= MediumFile THEN 4
    ELSE 8

\* Indexes of the segments of one transfer (initial_segments yields at most 8).
SegmentIndexes == 1 .. InitialSegments(MediumFile + 1)

\* Errors download_segment returns: opening the file or the response status
\* (before the first chunk), the stream or a file write (at any point).
SegStatusErrors == {"RangeNotSupported", "Http"}
SegStreamErrors == {"Network", "Io"}

\* DownloadEvent values; state and downloaded are set where the variant has them.
Event(kind, id, state, downloaded) ==
    [kind |-> kind, id |-> id, state |-> state, downloaded |-> downloaded]
EvAdded(id) == Event("DownloadAdded", id, "-", 0)
EvState(id, state) == Event("StateChange", id, state, 0)
EvError(id) == Event("Error", id, "-", 0)
EvProgress(id, downloaded) == Event("ProgressUpdate", id, "-", downloaded)
EvSpeed(id) == Event("SpeedUpdate", id, "-", 0)
EvComplete(id) == Event("Complete", id, "-", 0)

\* Orchestrator::new, before any command.
OrchInit ==
    /\ next_id = 1
    /\ downloads = << >>
    /\ events = << >>
    /\ ncommands = 0
    /\ run_pc = [i \in Ids |-> "unspawned"]
    /\ total_size = [i \in Ids |-> 0]
    /\ osegments = [i \in Ids |-> << >>]
    /\ seg_status = [i \in Ids |-> << >>]
    /\ segment_downloaded = [i \in Ids |-> << >>]
    /\ odownloaded = [i \in Ids |-> 0]
    /\ jidx = [i \in Ids |-> 0]
    /\ has_error = [i \in Ids |-> FALSE]
    /\ ppc = [i \in Ids |-> "unspawned"]
    /\ nticks = [i \in Ids |-> 0]
    /\ ofail = 0
    /\ probed = [i \in Ids |-> NoInfo]
    /\ requests = [i \in Ids |-> << >>]

fetchVars == << probed, requests >>

runVars == << run_pc, total_size, osegments, seg_status, segment_downloaded,
              odownloaded, jidx, has_error, ppc, nticks, ofail, fetchVars >>

\* ------------------------------------------------------- command handler
\* add_download: a fresh id, the task inserted as Pending, DownloadAdded
\* sent, run_download spawned.
AddDownload ==
    /\ ncommands < MaxCommands
    /\ next_id <= MaxDownloads
    /\ ncommands' = ncommands + 1
    /\ next_id' = next_id + 1
    /\ downloads' = (next_id :> "Pending") @@ downloads
    /\ events' = Append(events, EvAdded(next_id))
    /\ run_pc' = [run_pc EXCEPT ![next_id] = "spawned"]
    /\ UNCHANGED << total_size, osegments, seg_status, segment_downloaded,
                    odownloaded, jidx, has_error, ppc, nticks, ofail >>
    /\ UNCHANGED fetchVars
    /\ UNCHANGED outsideOrch

\* The body shared by pause_download, resume_download and cancel_download:
\* if the id is known, store the state and send StateChange.
SetState(id, state) ==
    IF id \in DOMAIN downloads
    THEN /\ downloads' = [downloads EXCEPT ![id] = state]
         /\ events' = Append(events, EvState(id, state))
    ELSE UNCHANGED << downloads, events >>

\* handle_command(PauseDownload(id))
PauseDownload(id) ==
    /\ ncommands < MaxCommands
    /\ ncommands' = ncommands + 1
    /\ SetState(id, "Paused")
    /\ UNCHANGED << next_id, runVars >>
    /\ UNCHANGED outsideOrch

\* handle_command(ResumeDownload(id))
ResumeDownload(id) ==
    /\ ncommands < MaxCommands
    /\ ncommands' = ncommands + 1
    /\ SetState(id, "Downloading")
    /\ UNCHANGED << next_id, runVars >>
    /\ UNCHANGED outsideOrch

\* handle_command(CancelDownload(id))
CancelDownload(id) ==
    /\ ncommands < MaxCommands
    /\ ncommands' = ncommands + 1
    /\ SetState(id, "Cancelled")
    /\ UNCHANGED << next_id, runVars >>
    /\ UNCHANGED outsideOrch

\* handle_command(SetBandwidthLimit(_)) does nothing.
SetBandwidthLimit ==
    /\ ncommands < MaxCommands
    /\ ncommands' = ncommands + 1
    /\ UNCHANGED << next_id, downloads, events, runVars >>
    /\ UNCHANGED outsideOrch

\* ------------------------------------------------------------ run_download
\* First poll: StateChange(Probing) is sent and the probe awaited.
RunStart(id) ==
    /\ run_pc[id] = "spawned"
    /\ events' = Append(events, EvState(id, "Probing"))
    /\ run_pc' = [run_pc EXCEPT ![id] = "probing"]
    /\ UNCHANGED << next_id, downloads, ncommands, total_size, osegments, seg_status,
                    segment_downloaded, odownloaded, jidx, has_error, ppc, nticks,
                    ofail >>
    /\ UNCHANGED fetchVars
    /\ UNCHANGED outsideOrch

\* The probe fails: Error is sent and run_download returns.
RunProbeErr(id) ==
    /\ run_pc[id] = "probing"
    /\ events' = Append(events, EvError(id))
    /\ run_pc' = [run_pc EXCEPT ![id] = "probe_failed"]
    /\ UNCHANGED << next_id, downloads, ncommands, total_size, osegments, seg_status,
                    segment_downloaded, odownloaded, jidx, has_error, ppc, nticks,
                    ofail >>
    /\ UNCHANGED fetchVars
    /\ UNCHANGED outsideOrch

\* info as run_download holds it once the probe has answered.
Probed(info) ==
    [size |-> info.size, supports_range |-> info.supports_range, probed |-> TRUE]

\* num_segments of run_download
PlannedSegments(info) ==
    IF info.supports_range /\ UnwrapOr(info.size, 0) > 0
    THEN InitialSegments(UnwrapOr(info.size, 0))
    ELSE 1

\* The probe succeeds: DownloadAdded and StateChange(Downloading) are sent and
\* the file is created. If that fails, Error is sent and run_download
\* returns; else the segments are planned, the counters created, and the
\* progress task and one download_segment task per segment spawned.
RunProbeOk(id) ==
    /\ run_pc[id] = "probing"
    /\ \E info \in ProbeInfos, file_ok \in BOOLEAN :
         LET size == UnwrapOr(info.size, 0)
             segs == SplitRange(size, PlannedSegments(info))
         IN  IF ~file_ok
             THEN /\ events' = events \o << EvAdded(id), EvState(id, "Downloading"),
                                            EvError(id) >>
                  /\ run_pc' = [run_pc EXCEPT ![id] = "create_failed"]
                  /\ UNCHANGED << total_size, osegments, seg_status,
                                  segment_downloaded, odownloaded, ppc >>
                  /\ probed' = [probed EXCEPT ![id] = Probed(info)]
             ELSE /\ events' = events \o << EvAdded(id), EvState(id, "Downloading") >>
                  /\ run_pc' = [run_pc EXCEPT ![id] = "join"]
                  /\ total_size' = [total_size EXCEPT ![id] = size]
                  /\ osegments' = [osegments EXCEPT ![id] = segs]
                  /\ seg_status' = [seg_status EXCEPT
                                      ![id] = [k \in 1 .. Len(segs) |-> "spawned"]]
                  /\ probed' = [probed EXCEPT ![id] = Probed(info)]
                  /\ segment_downloaded' = [segment_downloaded EXCEPT
                                              ![id] = [k \in 1 .. Len(segs) |-> 0]]
                  /\ odownloaded' = [odownloaded EXCEPT ![id] = 0]
                  /\ ppc' = [ppc EXCEPT ![id] = "sleep"]
    /\ UNCHANGED << next_id, downloads, ncommands, jidx, has_error, nticks, ofail,
                    requests >>
    /\ UNCHANGED outsideOrch

\* First poll of a download_segment task: the output file is opened and
\* positioned; if that fails the task returns Err(Io) and sends nothing, else
\* fetch_range sends its GET with a Range header.
SegmentStart(id, k) ==
    /\ k \in DOMAIN osegments[id]
    /\ seg_status[id][k] = "spawned"
    /\ \E open_ok \in BOOLEAN :
          IF open_ok
          THEN /\ seg_status' = [seg_status EXCEPT ![id][k] = "running"]
               /\ requests' = [requests EXCEPT ![id] = Append(@, "fetch_range")]
               /\ UNCHANGED ofail
          ELSE /\ ofail < MaxTaskFailures
               /\ seg_status' = [seg_status EXCEPT ![id][k] = "Io"]
               /\ ofail' = ofail + 1
               /\ UNCHANGED requests
    /\ UNCHANGED << next_id, downloads, events, ncommands, run_pc, total_size,
                    osegments, segment_downloaded, odownloaded, jidx, has_error,
                    ppc, nticks, probed >>
    /\ UNCHANGED outsideOrch

\* ProgressSink::write for the next chunk (one unit) of segment k's range,
\* up to its first fetch_add: the chunk is written to the file and added to
\* the global counter.
SegmentWrite(id, k) ==
    /\ k \in DOMAIN osegments[id]
    /\ seg_status[id][k] = "running"
    /\ segment_downloaded[id][k] < RangeLen(osegments[id][k])
    /\ odownloaded' = [odownloaded EXCEPT ![id] = @ + 1]
    /\ seg_status' = [seg_status EXCEPT ![id][k] = "counting"]
    /\ UNCHANGED << next_id, downloads, events, ncommands, run_pc, total_size,
                    osegments, segment_downloaded, jidx, has_error, ppc, nticks,
                    ofail >>
    /\ UNCHANGED fetchVars
    /\ UNCHANGED outsideOrch

\* ProgressSink::write, its second fetch_add: the chunk is added to the
\* segment's counter and write returns.
SegmentCount(id, k) ==
    /\ k \in DOMAIN osegments[id]
    /\ seg_status[id][k] = "counting"
    /\ segment_downloaded' = [segment_downloaded EXCEPT ![id][k] = @ + 1]
    /\ seg_status' = [seg_status EXCEPT ![id][k] = "running"]
    /\ UNCHANGED << next_id, downloads, events, ncommands, run_pc, total_size,
                    osegments, odownloaded, jidx, has_error, ppc, nticks, ofail >>
    /\ UNCHANGED fetchVars
    /\ UNCHANGED outsideOrch

\* download_segment returns Ok(()) after the whole range was streamed.
SegmentOk(id, k) ==
    /\ k \in DOMAIN osegments[id]
    /\ seg_status[id][k] = "running"
    /\ segment_downloaded[id][k] = RangeLen(osegments[id][k])
    /\ seg_status' = [seg_status EXCEPT ![id][k] = "ok"]
    /\ UNCHANGED << next_id, downloads, events, ncommands, run_pc, total_size,
                    osegments, segment_downloaded, odownloaded, jidx, has_error,
                    ppc, nticks, ofail >>
    /\ UNCHANGED fetchVars
    /\ UNCHANGED outsideOrch

\* download_segment returns Err(kind).
SegmentErr(id, k) ==
    /\ k \in DOMAIN osegments[id]
    /\ seg_status[id][k] = "running"
    /\ ofail < MaxTaskFailures
    /\ segment_downloaded[id][k] < RangeLen(osegments[id][k])
    /\ \E kind \in SegStatusErrors \cup SegStreamErrors :
          /\ kind \in SegStatusErrors => segment_downloaded[id][k] = 0
          /\ seg_status' = [seg_status EXCEPT ![id][k] = kind]
    /\ ofail' = ofail + 1
    /\ UNCHANGED << next_id, downloads, events, ncommands, run_pc, total_size,
                    osegments, segment_downloaded, odownloaded, jidx, has_error,
                    ppc, nticks >>
    /\ UNCHANGED fetchVars
    /\ UNCHANGED outsideOrch

\* The task ends without a result (it panicked): awaiting its handle yields
\* a JoinError.
SegmentPanic(id, k) ==
    /\ k \in DOMAIN osegments[id]
    /\ seg_status[id][k] = "running"
    /\ ofail < MaxTaskFailures
    /\ seg_status' = [seg_status EXCEPT ![id][k] = "panicked"]
    /\ ofail' = ofail + 1
    /\ UNCHANGED << next_id, downloads, events, ncommands, run_pc, total_size,
                    osegments, segment_downloaded, odownloaded, jidx, has_error,
                    ppc, nticks >>
    /\ UNCHANGED fetchVars
    /\ UNCHANGED outsideOrch

\* handle.await of the next handle: only a JoinError sets has_error and
\* sends Error; the task's own Result is dropped.
RunJoin(id) ==
    /\ run_pc[id] = "join"
    /\ jidx[id] < Len(osegments[id])
    /\ seg_status[id][jidx[id] + 1] \notin {"spawned", "running", "counting"}
    /\ IF seg_status[id][jidx[id] + 1] = "panicked"
       THEN /\ has_error' = [has_error EXCEPT ![id] = TRUE]
            /\ events' = Append(events, EvError(id))
       ELSE UNCHANGED << has_error, events >>
    /\ jidx' = [jidx EXCEPT ![id] = @ + 1]
    /\ UNCHANGED << next_id, downloads, ncommands, run_pc, total_size, osegments,
                    seg_status, segment_downloaded, odownloaded, ppc, nticks, ofail >>
    /\ UNCHANGED fetchVars
    /\ UNCHANGED outsideOrch

\* After the last handle: the progress task is aborted; with has_error
\* StateChange(Failed) is sent, else the final ProgressUpdate and Complete.
RunFinish(id) ==
    /\ run_pc[id] = "join"
    /\ jidx[id] = Len(osegments[id])
    /\ ppc' = [ppc EXCEPT ![id] = IF @ = "sleep" THEN "aborted" ELSE @]
    /\ IF has_error[id]
       THEN events' = Append(events, EvState(id, "Failed"))
       ELSE events' = events \o << EvProgress(id, odownloaded[id]), EvComplete(id) >>
    /\ run_pc' = [run_pc EXCEPT ![id] = "returned"]
    /\ UNCHANGED << next_id, downloads, ncommands, total_size, osegments, seg_status,
                    segment_downloaded, odownloaded, jidx, has_error, nticks, ofail >>
    /\ UNCHANGED fetchVars
    /\ UNCHANGED outsideOrch

\* One iteration of the progress task, after its 100 ms sleep: leave when
\* downloaded >= total_size, else send ProgressUpdate and SpeedUpdate.
ProgressTick(id) ==
    /\ ppc[id] = "sleep"
    /\ IF odownloaded[id] >= total_size[id]
       THEN /\ ppc' = [ppc EXCEPT ![id] = "exited"]
            /\ UNCHANGED << events, nticks >>
       ELSE /\ nticks[id] < MaxTicks
            /\ events' = events \o << EvProgress(id, odownloaded[id]), EvSpeed(id) >>
            /\ nticks' = [nticks EXCEPT ![id] = @ + 1]
            /\ UNCHANGED ppc
    /\ UNCHANGED << next_id, downloads, ncommands, run_pc, total_size, osegments,
                    seg_status, segment_downloaded, odownloaded, jidx, has_error,
                    ofail >>
    /\ UNCHANGED fetchVars
    /\ UNCHANGED outsideOrch

\* ====================================================================
\* Part III: SegmentManager (crates/storm-segment/src/manager.rs)
\* Sizes and offsets are in bytes. Every operation takes the write lock of
\* the segment list for its whole body, so concurrent callers interleave
\* whole operations. SegmentState.speed is not modelled (no operation reads
\* it).
\* ====================================================================

\* SegmentManager::new: min_segment_size and max_segments
DefaultMinSegmentSize == 262144
DefaultMaxSegments == 32

\* Arguments of the constructors: total_size, num_segments of with_segments,
\* and min_segment_size, max_segments of with_config.
MgrTotals == {0, 7, 1572864}
MgrNumSegments == 0 .. MaxInitSegments
MgrMinSizes == {0, 1, 2}
MgrMaxSegments == {1, MaxInitSegments}

\* initial_segments takes bytes: file_size <= 1,000,000 exactly when the size
\* rounded up to units of 500,000 bytes is <= SmallFile (likewise MediumFile).
SizeUnits(bytes) == (bytes + 499999) \div 500000

\* SegmentState::new with the segment born Active.
NewSegmentActive(id, range) ==
    [id |-> id, range |-> range, downloaded |-> 0, status |-> "Active",
     speed |-> 0]

\* SegmentState::new(id, range)
NewSegment(id, range) ==
    [id |-> id, range |-> range, downloaded |-> 0, status |-> "Pending",
     speed |-> 0]

\* SegmentState::remaining
SegRemaining(seg) == SatSub(RangeLen(seg.range), seg.downloaded)

\* ranges.into_iter().enumerate().map(|(id, range)| SegmentState::new(id, range))
SegmentsOf(ranges) == [k \in 1 .. Len(ranges) |-> NewSegment(k - 1, ranges[k])]

\* Option<SegmentState>
NoSegment == [some |-> FALSE, seg |-> NewSegment(0, [start |-> 0, end |-> 0])]
SomeSegment(seg) == [some |-> TRUE, seg |-> seg]

Call(op, id, ret) == [op |-> op, id |-> id, ret |-> ret]

\* No manager has been constructed.
MgrIdle ==
    /\ mgr_pc = "none"
    /\ msegments = << >>
    /\ mtotal_size = 0
    /\ min_segment_size = 0
    /\ max_segments = 0
    /\ last_call = Call("none", 0, NoSegment)
    /\ nops = 0

\* SegmentManager::new(total_size)
MgrNew ==
    /\ mgr_pc = "none"
    /\ \E total \in MgrTotals : mtotal_size' = total
    /\ mgr_pc' = "built"
    /\ msegments' = << >>
    /\ min_segment_size' = DefaultMinSegmentSize
    /\ max_segments' = DefaultMaxSegments
    /\ last_call' = Call("new", 0, NoSegment)
    /\ UNCHANGED nops
    /\ UNCHANGED outsideMgr

\* SegmentManager::with_config(total_size, min_segment_size, max_segments)
MgrWithConfig ==
    /\ mgr_pc = "none"
    /\ \E total \in MgrTotals, min \in MgrMinSizes, max \in MgrMaxSegments :
          /\ mtotal_size' = total
          /\ min_segment_size' = min
          /\ max_segments' = max
    /\ mgr_pc' = "built"
    /\ msegments' = << >>
    /\ last_call' = Call("with_config", 0, NoSegment)
    /\ UNCHANGED nops
    /\ UNCHANGED outsideMgr

\* SegmentManager::with_segments(total_size, num_segments)
MgrWithSegments ==
    /\ mgr_pc = "none"
    /\ \E total \in MgrTotals, num_segments \in MgrNumSegments :
          /\ mtotal_size' = total
          /\ msegments' = SegmentsOf(SplitRange(total, num_segments))
    /\ mgr_pc' = "ready"
    /\ min_segment_size' = DefaultMinSegmentSize
    /\ max_segments' = DefaultMaxSegments
    /\ last_call' = Call("with_segments", 0, NoSegment)
    /\ UNCHANGED nops
    /\ UNCHANGED outsideMgr

\* SegmentManager::initialize
MgrInitialize ==
    /\ mgr_pc \in {"built", "ready"}
    /\ nops < MaxOps
    /\ nops' = nops + 1
    /\ msegments' = SegmentsOf(SplitRange(mtotal_size,
                                          InitialSegments(SizeUnits(mtotal_size))))
    /\ mgr_pc' = "ready"
    /\ last_call' = Call("initialize", 0, NoSegment)
    /\ UNCHANGED << mtotal_size, min_segment_size, max_segments >>
    /\ UNCHANGED outsideMgr

\* The ids a caller passes: those of the segments and one beyond.
CallIds == 0 .. Len(msegments)

\* Every id a caller can pass within the bounds: initialize yields at most
\* InitialSegments(MediumFile) segments here and each call adds at most one.
MgrIds == 0 .. (InitialSegments(MediumFile) + MaxOps)

\* segments.get(id) is Some
HasSegment(segs, id) == id \in 0 .. (Len(segs) - 1)

\* The downloaded values a caller reports for a segment: none, one byte, all
\* but the bytes that still allow a split, the whole range, one byte more.
ReportedValues(seg) ==
    {0, 1, SatSub(RangeLen(seg.range), 2), SatSub(RangeLen(seg.range), 1),
     RangeLen(seg.range), RangeLen(seg.range) + 1}

\* The speeds a caller reports, in bytes per second: a slow and a fast one
\* (a segment has speed 0 until the first report).
ReportedSpeeds == {1, MaxSpeed}

\* SegmentManager::update_segment(id, downloaded, speed)
UpdateSegment(id) ==
    /\ mgr_pc = "ready"
    /\ id \in CallIds
    /\ nops < MaxOps
    /\ nops' = nops + 1
    /\ IF HasSegment(msegments, id)
       THEN \E downloaded \in ReportedValues(msegments[id + 1]),
               speed \in ReportedSpeeds :
               msegments' = [msegments EXCEPT
                                ![id + 1].downloaded = downloaded,
                                ![id + 1].speed = speed]
       ELSE UNCHANGED msegments
    /\ last_call' = Call("update_segment", id, NoSegment)
    /\ UNCHANGED << mgr_pc, mtotal_size, min_segment_size, max_segments >>
    /\ UNCHANGED outsideMgr

\* SegmentManager::mark_complete(id)
MarkComplete(id) ==
    /\ mgr_pc = "ready"
    /\ id \in CallIds
    /\ nops < MaxOps
    /\ nops' = nops + 1
    /\ IF HasSegment(msegments, id)
       THEN msegments' = [msegments EXCEPT
                            ![id + 1].status = "Complete",
                            ![id + 1].downloaded = RangeLen(msegments[id + 1].range)]
       ELSE UNCHANGED msegments
    /\ last_call' = Call("mark_complete", id, NoSegment)
    /\ UNCHANGED << mgr_pc, mtotal_size, min_segment_size, max_segments >>
    /\ UNCHANGED outsideMgr

\* SegmentManager::mark_error(id)
MarkError(id) ==
    /\ mgr_pc = "ready"
    /\ id \in CallIds
    /\ nops < MaxOps
    /\ nops' = nops + 1
    /\ IF HasSegment(msegments, id)
       THEN msegments' = [msegments EXCEPT ![id + 1].status = "Error"]
       ELSE UNCHANGED msegments
    /\ last_call' = Call("mark_error", id, NoSegment)
    /\ UNCHANGED << mgr_pc, mtotal_size, min_segment_size, max_segments >>
    /\ UNCHANGED outsideMgr

\* The early returns of split_segment with the count test off by one
\* (len > max_segments).
SplitRefusedOffByOne(segs, id) ==
    \/ Len(segs) > max_segments
    \/ ~HasSegment(segs, id)
    \/ SegRemaining(segs[id + 1]) < min_segment_size * 2

\* split_segment: the three early returns of None.
SplitRefused(segs, id) ==
    \/ Len(segs) >= max_segments
    \/ ~HasSegment(segs, id)
    \/ SegRemaining(segs[id + 1]) < min_segment_size * 2

\* split_segment: split_point
SplitPointOf(seg) == (seg.range.start + seg.downloaded) + SegRemaining(seg) \div 2

\* The split with the new segment given its parent's id.
SplitAppliedParentId(segs, id) ==
    LET seg == segs[id + 1]
        split_point == SplitPointOf(seg)
        new_segment == NewSegment(id,
                                  [start |-> split_point, end |-> seg.range.end])
    IN  Append([segs EXCEPT ![id + 1].range.end = split_point], new_segment)

\* split_segment: the segment list after a split of segment id
SplitApplied(segs, id) ==
    LET seg == segs[id + 1]
        split_point == SplitPointOf(seg)
        new_segment == NewSegment(Len(segs),
                                  [start |-> split_point, end |-> seg.range.end])
    IN  Append([segs EXCEPT ![id + 1].range.end = split_point], new_segment)

\* SegmentManager::split_segment(id)
SplitSegment(id) ==
    /\ mgr_pc = "ready"
    /\ id \in CallIds
    /\ nops < MaxOps
    /\ nops' = nops + 1
    /\ IF SplitRefused(msegments, id)
       THEN /\ UNCHANGED msegments
            /\ last_call' = Call("split_segment", id, NoSegment)
       ELSE /\ msegments' = SplitApplied(msegments, id)
            /\ last_call' = Call("split_segment", id,
                                 SomeSegment(SplitApplied(msegments, id)[Len(msegments) + 1]))
    /\ UNCHANGED << mgr_pc, mtotal_size, min_segment_size, max_segments >>
    /\ UNCHANGED outsideMgr

\* ====================================================================
\* Part IV: split_range (crates/storm-segment/src/splitter.rs) as a function
\* of its arguments
\* ====================================================================

\* No call of split_range is under study.
SplitIdle ==
    /\ sr_total = 0
    /\ sr_n = 0
    /\ sr_pc = "idle"
    /\ sr_ranges = << >>

\* The arguments of the call.
SplitInit ==
    /\ sr_total \in 0 .. MaxSplitTotal
    /\ sr_n \in 0 .. MaxSplitSegments
    /\ sr_pc = "call"
    /\ sr_ranges = << >>

\* split_range(sr_total, sr_n) returns.
SplitCall ==
    /\ sr_pc = "call"
    /\ sr_ranges' = SplitRange(sr_total, sr_n)
    /\ sr_pc' = "done"
    /\ UNCHANGED << sr_total, sr_n >>
    /\ UNCHANGED outsideSplit

\* ====================================================================
\* Part V: the downloaders' requests
\* ====================================================================

Protocols == {"http", "h3"}

\* ByteRange::new(start, end)
ByteRange(start, end) == [start |-> start, end |-> end]

\* x - 1 on a u64. At x = 0 the subtraction underflows: a build with overflow
\* checks panics, a build without them wraps to u64::MAX (is_max; the value
\* itself is beyond the integers of the model).
SubOne(x, overflow_checks) ==
    IF x >= 1 THEN [panic |-> FALSE, is_max |-> FALSE, val |-> x - 1]
    ELSE IF overflow_checks THEN [panic |-> TRUE, is_max |-> FALSE, val |-> 0]
    ELSE [panic |-> FALSE, is_max |-> TRUE, val |-> 0]

\* A Range header "bytes=START-END"; last_is_max stands for END = u64::MAX.
RangeValue(start, last, last_is_max) ==
    [sent |-> TRUE, start |-> start, last |-> last, last_is_max |-> last_is_max]

\* No request sent.
NoHeader == [sent |-> FALSE, start |-> 0, last |-> 0, last_is_max |-> FALSE]

\* format!("bytes={}-{}", range.start, range.end - 1)
RangeHeader(range, overflow_checks) ==
    LET e == SubOne(range.end, overflow_checks) IN
    RangeValue(range.start, e.val, e.is_max)

\* The ranges download_segmented_adaptive queues for fetch_range:
\* SegmentManager::with_segments(total_size, num_segments) with num_segments
\* as given by --segments (calculate_segments returns it unchanged) and
\* total_size > 0 (a size of 0 takes download_single).
PlannedRanges ==
    UNION { { SplitRange(t, n)[i] : i \in 1 .. Len(SplitRange(t, n)) } :
            t \in 1 .. MaxPlanTotal, n \in 1 .. MaxPlanSegments }

\* The statuses a response carries in the model.
Statuses == {200, 206, 404, 416, 429, 500}

\* The bodies of the chunks, to tell them apart.
Chunks == {"a", "b"}

\* Result<(), StormError>
NoResult == [done |-> FALSE, ok |-> FALSE, err |-> "", status |-> 0]
Ok == [done |-> TRUE, ok |-> TRUE, err |-> "", status |-> 0]
Err(e) == [done |-> TRUE, ok |-> FALSE, err |-> e, status |-> 0]
ErrHttp(st) == [done |-> TRUE, ok |-> FALSE, err |-> "Http", status |-> st]

\* StatusOutcome with the arm for 200 missing.
StatusOutcomeOkStreams(status) ==
    IF status = 206 \/ status = 200 THEN "stream"
    ELSE IF status = 429 THEN "RateLimited"
    ELSE "Http"

\* match response.status() of fetch_range: "stream" for the arm that falls
\* through to the body.
StatusOutcome(status) ==
    IF status = 206 THEN "stream"
    ELSE IF status = 200 THEN "RangeNotSupported"
    ELSE IF status = 429 THEN "RateLimited"
    ELSE "Http"

\* Nothing of Part V runs.
ProtoIdle ==
    /\ req = [op |-> "none", proto |-> "http", range |-> ByteRange(0, 0),
              overflow_checks |-> FALSE]
    /\ header = NoHeader
    /\ fpc = "idle"
    /\ fstatus = 0
    /\ arrived = << >>
    /\ sink = << >>
    /\ fresult = NoResult

\* One call: a probe, or a fetch_range of a planned range, on either
\* downloader, in a build with or without overflow checks.
ProtoInit ==
    /\ req \in [op : {"probe"}, proto : Protocols, range : {ByteRange(0, 0)},
                overflow_checks : BOOLEAN]
         \cup [op : {"fetch_range"}, proto : Protocols, range : PlannedRanges,
               overflow_checks : BOOLEAN]
    /\ header = NoHeader
    /\ fpc = "call"
    /\ fstatus = 0
    /\ arrived = << >>
    /\ sink = << >>
    /\ fresult = NoResult

\* The request of probe. HttpDownloader sets the header to the literal
\* "bytes=0-0"; Http3Downloader builds it from ByteRange::new(0, 0) with
\* build_request, which subtracts 1 from range.end.
ProbeRequest ==
    /\ fpc = "call"
    /\ req.op = "probe"
    /\ IF req.proto = "http"
       THEN /\ header' = RangeValue(0, 0, FALSE)
            /\ fpc' = "sent"
       ELSE IF SubOne(req.range.end, req.overflow_checks).panic
       THEN /\ header' = header
            /\ fpc' = "panicked"
       ELSE /\ header' = RangeHeader(req.range, req.overflow_checks)
            /\ fpc' = "sent"
    /\ UNCHANGED << req, fstatus, arrived, sink, fresult >>
    /\ UNCHANGED outsideProto

\* fetch_range up to the request: the header is formatted from the range
\* (http.rs:188, h3.rs:148) and the request goes out.
FetchRequest ==
    /\ fpc = "call"
    /\ req.op = "fetch_range"
    /\ IF SubOne(req.range.end, req.overflow_checks).panic
       THEN /\ header' = header
            /\ fpc' = "panicked"
       ELSE /\ header' = RangeHeader(req.range, req.overflow_checks)
            /\ fpc' = "sent"
    /\ UNCHANGED << req, fstatus, arrived, sink, fresult >>
    /\ UNCHANGED outsideProto

\* No response arrives: send (http) or send_request / finish / recv_response
\* (h3) fails, and fetch_range returns Network.
FetchNoResponse ==
    /\ fpc = "sent"
    /\ req.op = "fetch_range"
    /\ fresult' = Err("Network")
    /\ fpc' = "done"
    /\ UNCHANGED << req, header, fstatus, arrived, sink >>
    /\ UNCHANGED outsideProto

\* The response arrives and fetch_range matches on its status.
FetchResponse(status) ==
    /\ fpc = "sent"
    /\ req.op = "fetch_range"
    /\ fstatus' = status
    /\ LET outcome == StatusOutcome(status) IN
       IF outcome = "stream"
       THEN /\ fpc' = "streaming"
            /\ fresult' = fresult
       ELSE /\ fpc' = "done"
            /\ fresult' = IF outcome = "Http" THEN ErrHttp(status)
                          ELSE Err(outcome)
    /\ UNCHANGED << req, header, arrived, sink >>
    /\ UNCHANGED outsideProto

\* One pass of the body loop: the stream yields a chunk and the sink
\* writes it; a write that fails returns the sink's error.
FetchChunk(c) ==
    /\ fpc = "streaming"
    /\ Len(arrived) < MaxChunks
    /\ arrived' = Append(arrived, c)
    /\ sink' = Append(sink, [call |-> "write", data |-> c])
    /\ \E write_ok \in BOOLEAN :
          IF write_ok
          THEN /\ fpc' = fpc
               /\ fresult' = fresult
          ELSE /\ fpc' = "done"
               /\ fresult' = Err("Io")
    /\ UNCHANGED << req, header, fstatus >>
    /\ UNCHANGED outsideProto

\* The stream yields an error: fetch_range returns Network.
FetchStreamError ==
    /\ fpc = "streaming"
    /\ fresult' = Err("Network")
    /\ fpc' = "done"
    /\ UNCHANGED << req, header, fstatus, arrived, sink >>
    /\ UNCHANGED outsideProto

\* The stream ends: sink.flush()?, then Ok(()).
FetchStreamEnd ==
    /\ fpc = "streaming"
    /\ sink' = Append(sink, [call |-> "flush", data |-> ""])
    /\ \E flush_ok \in BOOLEAN :
          fresult' = IF flush_ok THEN Ok ELSE Err("Io")
    /\ fpc' = "done"
    /\ UNCHANGED << req, header, fstatus, arrived >>
    /\ UNCHANGED outsideProto

\* ====================================================================
\* Part VI: ConnectionPool
\* ====================================================================

PoolHosts == {"a.example", "b.example"}

\* hosts.get(host) is None
NoHost == [known |-> FALSE, active_connections |-> 0, is_http2 |-> FALSE]

\* HostState { active_connections, is_http2 }
HostState(active, h2) ==
    [known |-> TRUE, active_connections |-> active, is_http2 |-> h2]

\* let limit = if state.is_http2 { per_host_limit_h2 } else { per_host_limit }
HostLimit(state) == IF state.is_http2 THEN PerHostLimitH2 ELSE PerHostLimit

\* A call on the pool: operation, host, return value, and the is_http2
\* argument of an acquire.
PoolCall(op, host, ret) ==
    [op |-> op, host |-> host, ret |-> ret, is_http2 |-> FALSE]

\* ConnectionPool::new: no host is known.
PoolInit ==
    /\ hosts = [h \in PoolHosts |-> NoHost]
    /\ pool_call = PoolCall("new", "", FALSE)

\* Nothing of Part VI runs.
PoolIdle == PoolInit

\* The entry of the host with is_http2 overwritten by the caller's.
EntryOverwritten(host, is_http2) ==
    HostState(hosts[host].active_connections, is_http2)

\* hosts.entry(host).or_insert(HostState { active_connections: 0, is_http2 })
EntryOrInsert(host, is_http2) ==
    IF hosts[host].known THEN hosts[host] ELSE HostState(0, is_http2)

\* ConnectionPool::can_connect, on the host's entry.
CanConnect(state) ==
    IF state.known THEN state.active_connections < HostLimit(state) ELSE TRUE

\* ConnectionPool::can_connect(host)
CanConnectCall(host) ==
    /\ pool_call' = PoolCall("can_connect", host, CanConnect(hosts[host]))
    /\ UNCHANGED hosts
    /\ UNCHANGED outsidePool

\* ConnectionPool::acquire(host, is_http2): the entry is inserted with the
\* caller's is_http2 only when the host is new; the limit is the one of the
\* entry's own is_http2.
Acquire(host, is_http2) ==
    LET state == EntryOrInsert(host, is_http2)
        granted == state.active_connections < HostLimit(state)
    IN  /\ hosts' = [hosts EXCEPT ![host] =
                        IF granted
                        THEN HostState(state.active_connections + 1,
                                       state.is_http2)
                        ELSE state]
        /\ pool_call' = [PoolCall("acquire", host, granted)
                             EXCEPT !.is_http2 = is_http2]
        /\ UNCHANGED outsidePool

\* ConnectionPool::release(host): saturating_sub(1) on a known host.
Release(host) ==
    /\ hosts' = [hosts EXCEPT ![host] =
                    IF hosts[host].known
                    THEN HostState(SatSub(hosts[host].active_connections, 1),
                                   hosts[host].is_http2)
                    ELSE hosts[host]]
    /\ pool_call' = PoolCall("release", host, FALSE)
    /\ UNCHANGED outsidePool

\* ConnectionPool::set_http2(host): is_http2 = true on a known host.
SetHttp2(host) ==
    /\ hosts' = [hosts EXCEPT ![host] =
                    IF hosts[host].known
                    THEN HostState(hosts[host].active_connections, TRUE)
                    ELSE hosts[host]]
    /\ pool_call' = PoolCall("set_http2", host, FALSE)
    /\ UNCHANGED outsidePool

\* ====================================================================
\* Part VII: MirrorSet and MultiSourceManager
\* ====================================================================

Priorities == {"Primary", "Secondary", "Fallback"}

\* priority_boost, doubled: 1.5, 1.0, 0.5.
PriorityBoost2(priority) ==
    IF priority = "Primary" THEN 3
    ELSE IF priority = "Secondary" THEN 2
    ELSE 1

\* An f64 speed as a fraction num / den, den > 0.
Speed(num, den) == [num |-> num, den |-> den]

\* An AtomicUsize counter after fetch_sub at 0 has wrapped: the model keeps
\* the counter as an integer and a negative c stands for 2^64 + c. All of
\* these convert to the same f64, 2^64.
Wrapped(c) == c < 0

\* A score: the fraction num / den, times the load factor of a wrapped
\* counter (1 / (1 + 0.1 * 2^64)) when tiny. neg_inf is f64::NEG_INFINITY.
Score(num, den, tiny) ==
    [neg_inf |-> FALSE, num |-> num, den |-> den, tiny |-> tiny]
NegInfinity == [neg_inf |-> TRUE, num |-> 0, den |-> 1, tiny |-> FALSE]

\* x > y on scores. Within the bounds of the model every positive score
\* without the tiny factor is above every score with it.
ScoreGt(x, y) ==
    IF x.neg_inf THEN FALSE
    ELSE IF y.neg_inf THEN TRUE
    ELSE IF x.num = 0 THEN FALSE
    ELSE IF y.num = 0 THEN TRUE
    ELSE IF x.tiny # y.tiny THEN y.tiny
    ELSE x.num * y.den > y.num * x.den

\* 10 / (1.0 + active * 0.1) as the denominator 10 + active, or the tiny
\* factor for a wrapped counter.
LoadDen(active) == IF Wrapped(active) THEN 1 ELSE 10 + active

\* best_mirror with the penalty growing with the errors.
MirrorScoreErrorsRaise(speed, nerrors, active, priority) ==
    Score(speed.num * PriorityBoost2(priority) * 10 * (2 + nerrors),
          speed.den * LoadDen(active), Wrapped(active))

\* The score of best_mirror:
\*   speed * priority_boost * (1 / (1 + errors * 0.5)) * (1 / (1 + active * 0.1))
MirrorScore(speed, nerrors, active, priority) ==
    Score(speed.num * PriorityBoost2(priority) * 10,
          speed.den * (2 + nerrors) * LoadDen(active), Wrapped(active))

\* The score of reassign_segment:
\*   (speed + 1.0) * (1 / (1 + errors * 0.5)) * (1 / (1 + active * 0.1))
\* The priority is not an input of the code's score.
ReassignScore(speed, nerrors, active, priority) ==
    Score((speed.num + Epsilon * speed.den) * 20,
          speed.den * (2 + nerrors) * LoadDen(active), Wrapped(active))

MirrorIdx == 0 .. (MaxMirrors - 1)
MsSegments == 0 .. (MaxMsSegments - 1)

\* Option<usize>: a source index, or None.
NoSource == [some |-> FALSE, idx |-> 0]
SomeSource(idx) == [some |-> TRUE, idx |-> idx]

\* stats.get(&idx) is None / MirrorStats { errors, avg_speed, active_segments }
NoMirrorStats ==
    [some |-> FALSE, errors |-> 0, avg_speed |-> Speed(0, 1),
     active_segments |-> 0]
MirrorStats(nerrors, avg_speed, active) ==
    [some |-> TRUE, errors |-> nerrors, avg_speed |-> avg_speed,
     active_segments |-> active]

\* source_stats.get(&idx) is None / SourceStats::new()
NoSourceStats ==
    [some |-> FALSE, errors |-> 0, active_segments |-> 0,
     speed_samples |-> << >>]
NewSourceStats ==
    [some |-> TRUE, errors |-> 0, active_segments |-> 0,
     speed_samples |-> << >>]

\* stats.entry(idx).or_insert_with(SourceStats::new)
EntryOrNew(stats, idx) == IF stats[idx].some THEN stats[idx] ELSE NewSourceStats

RECURSIVE SumSeq(_)
SumSeq(s) == IF s = << >> THEN 0 ELSE Head(s) + SumSeq(Tail(s))

\* SourceStats::avg_speed
AvgSpeed(stats) ==
    IF stats.speed_samples = << >> THEN Speed(0, 1)
    ELSE Speed(SumSeq(stats.speed_samples), Len(stats.speed_samples))

RECURSIVE BestMirrorFrom(_, _, _, _, _)
\* The loop of best_mirror from index idx on.
BestMirrorFrom(idx, best_idx, best_score, ms, stats) ==
    IF idx >= Len(ms) THEN best_idx
    ELSE LET s == stats[idx]
             score == MirrorScore(s.avg_speed, s.errors, s.active_segments,
                                  ms[idx + 1])
         IN  IF ScoreGt(score, best_score)
             THEN BestMirrorFrom(idx + 1, idx, score, ms, stats)
             ELSE BestMirrorFrom(idx + 1, best_idx, best_score, ms, stats)

\* MirrorSet::best_mirror (select_for_segment returns it): the scores are
\* those of MirrorSet.stats, an absent entry counting as speed 0, errors 0,
\* active 0.
BestMirror(ms, stats) ==
    IF Len(ms) <= 1 THEN 0
    ELSE BestMirrorFrom(0, 0, NegInfinity, ms, stats)

RECURSIVE ReassignFrom(_, _, _, _, _, _)
\* The loop of reassign_segment from index idx on: the scores are those of
\* source_stats.
ReassignFrom(idx, excluded, best_idx, best_score, mirror_count, stats) ==
    IF idx >= mirror_count THEN best_idx
    ELSE IF excluded.some /\ idx = excluded.idx
    THEN ReassignFrom(idx + 1, excluded, best_idx, best_score, mirror_count,
                      stats)
    ELSE LET s == stats[idx]
             score == ReassignScore(AvgSpeed(s), s.errors, s.active_segments,
                                    "Secondary")
         IN  IF ScoreGt(score, best_score)
             THEN ReassignFrom(idx + 1, excluded, SomeSource(idx), score,
                               mirror_count, stats)
             ELSE ReassignFrom(idx + 1, excluded, best_idx, best_score,
                               mirror_count, stats)

MsCall(op, arg, ret) == [op |-> op, arg |-> arg, ret |-> ret]

\* Nothing of Part VII runs.
MsIdle ==
    /\ mirrors = << "Primary" >>
    /\ mirror_stats = [i \in MirrorIdx |-> NoMirrorStats]
    /\ segment_assignments = [s \in MsSegments |-> NoSource]
    /\ source_stats = [i \in MirrorIdx |-> NoSourceStats]
    /\ ms_call = MsCall("idle", 0, NoSource)
    /\ ms_nops = 0

\* MultiSourceManager::new(mirrors, total_size) on a MirrorSet made by
\* MirrorSet::new(primary) and any number of add / add_url calls.
MsInit ==
    /\ \E n \in 1 .. MaxMirrors :
          mirrors \in { ms \in [1 .. n -> Priorities] : ms[1] = "Primary" }
    /\ mirror_stats = [i \in MirrorIdx |-> NoMirrorStats]
    /\ segment_assignments = [s \in MsSegments |-> NoSource]
    /\ source_stats = [i \in MirrorIdx |-> NoSourceStats]
    /\ ms_call = MsCall("new", 0, NoSource)
    /\ ms_nops = 0

\* One more call on the manager.
MsStep(op, arg, ret) ==
    /\ ms_nops < MaxMsOps
    /\ ms_nops' = ms_nops + 1
    /\ ms_call' = MsCall(op, arg, ret)
    /\ UNCHANGED outsideMs

\* MultiSourceManager::assign_segment(segment_idx, _)
AssignSegment(seg) ==
    LET source_idx == BestMirror(mirrors, mirror_stats)
        old == EntryOrNew(source_stats, source_idx)
    IN  /\ segment_assignments' =
              [segment_assignments EXCEPT ![seg] = SomeSource(source_idx)]
        /\ source_stats' =
              [source_stats EXCEPT ![source_idx] =
                  [old EXCEPT !.active_segments = @ + 1]]
        /\ MsStep("assign_segment", seg, SomeSource(source_idx))
        /\ UNCHANGED << mirrors, mirror_stats >>

\* MultiSourceManager::reassign_segment(segment_idx): the old source's
\* counter is decremented first (fetch_sub wraps at 0), then a single
\* mirror returns None, then the loop picks among the other indexes.
ReassignSegment(seg) ==
    LET old_source == segment_assignments[seg]
        decremented ==
            IF old_source.some /\ source_stats[old_source.idx].some
            THEN [source_stats EXCEPT
                     ![old_source.idx].active_segments = @ - 1]
            ELSE source_stats
        mirror_count == Len(mirrors)
        best_idx == ReassignFrom(0, old_source, NoSource, NegInfinity,
                                 mirror_count, decremented)
    IN  IF mirror_count <= 1
        THEN /\ source_stats' = decremented
             /\ MsStep("reassign_segment", seg, NoSource)
             /\ UNCHANGED << mirrors, mirror_stats, segment_assignments >>
        ELSE /\ segment_assignments' =
                   IF best_idx.some
                   THEN [segment_assignments EXCEPT ![seg] = best_idx]
                   ELSE segment_assignments
             /\ source_stats' =
                   IF best_idx.some
                   THEN [decremented EXCEPT ![best_idx.idx] =
                            [EntryOrNew(decremented, best_idx.idx)
                                EXCEPT !.active_segments = @ + 1]]
                   ELSE decremented
             /\ MsStep("reassign_segment", seg, best_idx)
             /\ UNCHANGED << mirrors, mirror_stats >>

\* MultiSourceManager::record_progress(source_idx, _, speed)
RecordProgress(source_idx, speed) ==
    LET old == EntryOrNew(source_stats, source_idx)
        pushed_samples == Append(old.speed_samples, speed)
        samples == IF Len(pushed_samples) > SampleCap
                   THEN Tail(pushed_samples) ELSE pushed_samples
    IN  /\ source_stats' =
              [source_stats EXCEPT ![source_idx] =
                  [old EXCEPT !.speed_samples = samples]]
        /\ MsStep("record_progress", source_idx, NoSource)
        /\ UNCHANGED << mirrors, mirror_stats, segment_assignments >>

\* MultiSourceManager::record_error(source_idx)
RecordError(source_idx) ==
    LET old == EntryOrNew(source_stats, source_idx)
    IN  /\ source_stats' =
              [source_stats EXCEPT ![source_idx] =
                  [old EXCEPT !.errors = @ + 1]]
        /\ MsStep("record_error", source_idx, NoSource)
        /\ UNCHANGED << mirrors, mirror_stats, segment_assignments >>

\* MultiSourceManager::complete_segment(segment_idx): the assignment stays.
CompleteSegment(seg) ==
    LET source_idx == segment_assignments[seg]
    IN  /\ source_stats' =
              IF source_idx.some /\ source_stats[source_idx.idx].some
              THEN [source_stats EXCEPT
                       ![source_idx.idx].active_segments = @ - 1]
              ELSE source_stats
        /\ MsStep("complete_segment", seg, NoSource)
        /\ UNCHANGED << mirrors, mirror_stats, segment_assignments >>

\* MultiSourceManager::sync_mirror_stats: MirrorSet.stats takes the
\* counters of every index source_stats knows.
SyncMirrorStats ==
    /\ mirror_stats' =
          [i \in MirrorIdx |->
              IF source_stats[i].some
              THEN MirrorStats(source_stats[i].errors,
                               AvgSpeed(source_stats[i]),
                               source_stats[i].active_segments)
              ELSE mirror_stats[i]]
    /\ MsStep("sync_mirror_stats", 0, NoSource)
    /\ UNCHANGED << mirrors, segment_assignments, source_stats >>

\* ====================================================================
\* Part VIII: the mirror scores as functions
\* ====================================================================

\* Speeds are averages of measured rates: fractions >= 0.
ScoreSpeeds == { Speed(n, d) : n \in 0 .. MaxScoreSpeed, d \in 1 .. 2 }
ScoreErrors == 0 .. MaxScoreErrors
\* Active counts, the wrapped ones (2^64 - 2, 2^64 - 1) included.
ScoreActives == (0 - 2) .. MaxScoreActive

\* a < b on counters: the wrapped values are above all others.
CounterLt(a, b) == IF Wrapped(a) = Wrapped(b) THEN a < b ELSE Wrapped(b)

\* a < b on speeds.
SpeedLt(a, b) == a.num * b.den < b.num * a.den

ScoreInput(speed, nerrors, active, priority) ==
    [speed |-> speed, errors |-> nerrors, active |-> active,
     priority |-> priority]

\* Both scores of one input.
ScoresOf(in) ==
    [mirror |-> MirrorScore(in.speed, in.errors, in.active, in.priority),
     reassign |-> ReassignScore(in.speed, in.errors, in.active, in.priority)]

NoScores == [raised |-> "none", lo |-> ScoresOf(ScoreInput(Speed(0, 1), 0, 0,
                                                       "Primary")),
             hi |-> ScoresOf(ScoreInput(Speed(0, 1), 0, 0, "Primary"))]

\* Nothing of Part VIII runs.
ScoreIdle ==
    /\ sc_in = ScoreInput(Speed(0, 1), 0, 0, "Primary")
    /\ sc_pc = "idle"
    /\ sc_out = NoScores

\* The inputs of the score.
ScoreInit ==
    /\ sc_in \in { ScoreInput(s, e, a, p) : s \in ScoreSpeeds,
                   e \in ScoreErrors, a \in ScoreActives, p \in Priorities }
    /\ sc_pc = "call"
    /\ sc_out = NoScores

\* The scores of sc_in and of the same input with raised in place of one
\* field.
ScoreBoth(field, raised) ==
    /\ sc_pc = "call"
    /\ sc_out' = [raised |-> field, lo |-> ScoresOf(sc_in),
                  hi |-> ScoresOf(raised)]
    /\ sc_pc' = "done"
    /\ UNCHANGED sc_in
    /\ UNCHANGED outsideScore

\* The scores with more errors.
ScoreMoreErrors(e) ==
    /\ sc_in.errors < e
    /\ ScoreBoth("errors", [sc_in EXCEPT !.errors = e])

\* The scores with more active segments.
ScoreMoreActive(a) ==
    /\ CounterLt(sc_in.active, a)
    /\ ScoreBoth("active", [sc_in EXCEPT !.active = a])

\* The scores with a higher speed.
ScoreMoreSpeed(s) ==
    /\ SpeedLt(sc_in.speed, s)
    /\ ScoreBoth("speed", [sc_in EXCEPT !.speed = s])

\* ====================================================================
\* Part IX: AdaptiveController
\* ====================================================================

Minimum(a, b) == IF a <= b THEN a ELSE b

\* ((bdp as f64) / (tcp_window as f64)).ceil() as usize
CeilDiv(a, b) == (a + b - 1) \div b

\* The controllers of the model: new(file_size, initial_segments) and
\* with_config(file_size, initial_segments, max_segments, min_segment_size).
CtlFileSizes == {0, 1048576, 4194304}
CtlInitialSegments == {0, 1, 4}
CtlMaxSegments == {0, 2, MaxCtlSegments, DefaultMaxSegments}
CtlMinSizes == {0, DefaultMinSegmentSize, 1048576}

\* The bdp arguments of evaluate: None, and sizes around multiples of
\* tcp_window.
CtlBdps ==
    {None} \cup { Some(b) : b \in {0, 1, TcpWindow, TcpWindow + 1,
                                   3 * TcpWindow, 8 * TcpWindow,
                                   40 * TcpWindow} }

\* Option<SegmentAdjustment>: None, or Split { count, .. }.
NoAdjustment == [split |-> FALSE, count |-> 0, optimal |-> 0]
Split(count, optimal) == [split |-> TRUE, count |-> count, optimal |-> optimal]

\* evaluate from the clamp on, without the test on avg_segment_size.
AdjustmentNoSizeCheck(current, bdp, c) ==
    LET optimal == Minimum(IF CeilDiv(bdp, TcpWindow) < 1 THEN 1
                           ELSE CeilDiv(bdp, TcpWindow), c.max_segments)
        segments_to_add == Minimum(optimal - current, MaxSegmentsToAdd)
    IN  IF optimal <= current THEN NoAdjustment
        ELSE Split(segments_to_add, optimal)

\* evaluate from the clamp on (max_segments >= 1): the adjustment returned
\* for the loaded current and the caller's bdp.
Adjustment(current, bdp, c) ==
    LET optimal == Minimum(IF CeilDiv(bdp, TcpWindow) < 1 THEN 1
                           ELSE CeilDiv(bdp, TcpWindow), c.max_segments)
        remaining_segments == optimal - current
        segments_to_add == Minimum(remaining_segments, MaxSegmentsToAdd)
        avg_segment_size == c.file_size \div (current + segments_to_add)
    IN  IF optimal <= current THEN NoAdjustment
        ELSE IF avg_segment_size < c.min_segment_size THEN NoAdjustment
        ELSE Split(segments_to_add, optimal)

CtlRet(op, ret) == [op |-> op, ret |-> ret]

\* Nothing of Part IX runs.
CtlIdle ==
    /\ ctl = [file_size |-> 0, max_segments |-> DefaultMaxSegments,
              min_segment_size |-> DefaultMinSegmentSize]
    /\ current_segments = 0
    /\ interval_elapsed = FALSE
    /\ ev_pc = "none"
    /\ ev_local = [current |-> 0, bdp |-> None]
    /\ ctl_ret = CtlRet("none", NoAdjustment)
    /\ ctl_nops = 0

\* AdaptiveController::new or with_config: last_adjustment is now.
CtlInit ==
    /\ ctl \in [file_size : CtlFileSizes, max_segments : CtlMaxSegments,
                min_segment_size : CtlMinSizes]
    /\ current_segments \in CtlInitialSegments
    /\ interval_elapsed = FALSE
    /\ ev_pc = "idle"
    /\ ev_local = [current |-> 0, bdp |-> None]
    /\ ctl_ret = CtlRet("new", NoAdjustment)
    /\ ctl_nops = 0

\* A call on the controller returns.
CtlReturn(op, ret) ==
    /\ ctl_ret' = CtlRet(op, ret)
    /\ ctl_nops' = ctl_nops + 1
    /\ UNCHANGED ctl
    /\ UNCHANGED outsideCtl

\* adjustment_interval passes.
CtlTick ==
    /\ ev_pc \in {"idle", "loaded"}
    /\ ~interval_elapsed
    /\ interval_elapsed' = TRUE
    /\ UNCHANGED << ctl, current_segments, ev_pc, ev_local, ctl_ret,
                    ctl_nops >>
    /\ UNCHANGED outsideCtl

\* evaluate(bdp, _) under the lock of last_adjustment, up to the load of
\* current_segments: None when the interval has not passed.
EvaluateLoad(bdp) ==
    /\ ev_pc = "idle"
    /\ ctl_nops < MaxCtlOps
    /\ IF ~interval_elapsed
       THEN /\ CtlReturn("evaluate", NoAdjustment)
            /\ UNCHANGED << current_segments, interval_elapsed, ev_pc,
                            ev_local >>
       ELSE /\ ev_local' = [current |-> current_segments, bdp |-> bdp]
            /\ ev_pc' = "loaded"
            /\ UNCHANGED << ctl, current_segments, interval_elapsed, ctl_ret,
                            ctl_nops >>
            /\ UNCHANGED outsideCtl

\* evaluate from `let bdp = bdp?` to its return: clamp(1, max_segments)
\* panics when max_segments is 0; a Split sets last_adjustment to now and
\* stores current + segments_to_add.
EvaluateFinish ==
    /\ ev_pc = "loaded"
    /\ IF ~ev_local.bdp.some
       THEN /\ CtlReturn("evaluate", NoAdjustment)
            /\ ev_pc' = "idle"
            /\ UNCHANGED << current_segments, interval_elapsed, ev_local >>
       ELSE IF ctl.max_segments < 1
       THEN /\ ev_pc' = "panicked"
            /\ UNCHANGED << ctl, current_segments, interval_elapsed,
                            ev_local, ctl_ret, ctl_nops >>
            /\ UNCHANGED outsideCtl
       ELSE LET adj == Adjustment(ev_local.current, ev_local.bdp.val, ctl)
            IN  /\ CtlReturn("evaluate", adj)
                /\ ev_pc' = "idle"
                /\ current_segments' =
                      IF adj.split THEN ev_local.current + adj.count
                      ELSE current_segments
                /\ interval_elapsed' =
                      IF adj.split THEN FALSE ELSE interval_elapsed
                /\ UNCHANGED ev_local

\* record_split: fetch_add(1), at any time.
RecordSplit ==
    /\ ev_pc \in {"idle", "loaded"}
    /\ ctl_nops < MaxCtlOps
    /\ current_segments' = current_segments + 1
    /\ CtlReturn("record_split", NoAdjustment)
    /\ UNCHANGED << interval_elapsed, ev_pc, ev_local >>

\* ====================================================================
\* Part X: download ids across orchestrators
\* ====================================================================

Orchestrators == 1 .. NumOrchestrators

\* fetch_add as a load followed by a store of the same value.
FetchAddLost(counter) == [returned |-> counter, stored |-> counter]

\* NEXT_ID.fetch_add(1, Ordering::Relaxed): one atomic step that returns
\* the old value and stores the old value plus one.
FetchAdd(counter) == [returned |-> counter, stored |-> counter + 1]

\* static NEXT_ID: AtomicU64 = AtomicU64::new(1), no orchestrator running.
IdInit ==
    /\ NEXT_ID = 1
    /\ id_local = [o \in Orchestrators |-> None]
    /\ id_downloads = [o \in Orchestrators |-> << >>]
    /\ id_log = << >>

\* Nothing of Part X runs.
IdIdle == IdInit

\* add_download of orchestrator o up to `let id = next_download_id()`.
NextDownloadId(o) ==
    /\ ~id_local[o].some
    /\ Len(id_log) < MaxIdAdds
    /\ LET r == FetchAdd(NEXT_ID)
       IN  /\ NEXT_ID' = r.stored
           /\ id_local' = [id_local EXCEPT ![o] = Some(r.returned)]
           /\ id_log' = Append(id_log, r.returned)
    /\ UNCHANGED id_downloads
    /\ UNCHANGED outsideId

\* The rest of add_download of orchestrator o: self.downloads.insert(id,
\* task), which replaces the task of an id already in the map.
InsertTask(o) ==
    /\ id_local[o].some
    /\ id_downloads' =
          [id_downloads EXCEPT ![o] =
              (id_local[o].val :> "Pending") @@ id_downloads[o]]
    /\ id_local' = [id_local EXCEPT ![o] = None]
    /\ UNCHANGED << NEXT_ID, id_log >>
    /\ UNCHANGED outsideId

\* A command on a known transfer of orchestrator o changes its state.
IdSetState(o, id, state) ==
    /\ id \in DOMAIN id_downloads[o]
    /\ id_downloads[o][id] # state
    /\ id_downloads' = [id_downloads EXCEPT ![o][id] = state]
    /\ UNCHANGED << NEXT_ID, id_local, id_log >>
    /\ UNCHANGED outsideId

\* ====================================================================
\* Part XI: RateLimiter
\* ====================================================================

\* The u64 limit (hi * 2^32 + lo) * 16384 + rem, with rem < 16384.
Bps(hi, lo, rem) == [hi |-> hi, lo |-> lo, rem |-> rem]

\* bps == 0
BpsIsZero(bps) == bps.hi = 0 /\ bps.lo = 0 /\ bps.rem = 0

\* Option<u64> of limits.
NoBps == [some |-> FALSE, val |-> Bps(0, 0, 0)]
SomeBps(bps) == [some |-> TRUE, val |-> bps]

\* The limits of the model: None, Some(0), and limits whose quotient by
\* 16384 is below, at and above 2^32.
LimLimits ==
    {NoBps} \cup { SomeBps(Bps(hi, lo, rem)) :
                     hi \in 0 .. 1, lo \in 0 .. MaxLimDigit, rem \in 0 .. 1 }

\* The bytes arguments of acquire and try_acquire.
LimBytes == {0, 1, ChunkSize, ChunkSize + 1, 2 * ChunkSize, 3 * ChunkSize}

\* Option<Arc<InnerLimiter>>: the quota of the limiter, or None.
NoLimiter == [some |-> FALSE, rate |-> 0]
SomeLimiter(rate) == [some |-> TRUE, rate |-> rate]

\* The limiter field RateLimiter::new builds:
\*   (bps / chunk_size as u64).max(1) as u32 is 1 when the quotient is 0,
\*   and the low digit of the quotient otherwise; NonZeroU32::new of 0 is
\*   None.
NewLimiter(limit) ==
    IF ~limit.some THEN NoLimiter
    ELSE LET bps == limit.val
             chunks_per_second ==
                 IF bps.hi = 0 /\ bps.lo = 0 THEN 1 ELSE bps.lo
         IN  IF BpsIsZero(bps) THEN NoLimiter
             ELSE IF chunks_per_second = 0 THEN NoLimiter
             ELSE SomeLimiter(chunks_per_second)

\* (bytes / 16384).max(1)
ChunksOf(bytes) == IF bytes \div ChunkSize < 1 THEN 1 ELSE bytes \div ChunkSize

\* RateLimiter::is_limited
IsLimited == limiter.some

LimCall(op, bytes, permits, suspended, ret) ==
    [op |-> op, bytes |-> bytes, permits |-> permits,
     suspended |-> suspended, ret |-> ret]

\* Nothing of Part XI runs.
LimIdle ==
    /\ limiter = NoLimiter
    /\ bytes_per_second = NoBps
    /\ ready_permits = 0
    /\ lim_pc = "none"
    /\ lim_call = LimCall("none", 0, 0, FALSE, FALSE)
    /\ lim_nops = 0

\* RateLimiter::new(bytes_per_second); unlimited() is new(None). A new
\* quota starts with its whole burst of permits.
LimInit ==
    /\ bytes_per_second \in LimLimits
    /\ limiter = NewLimiter(bytes_per_second)
    /\ ready_permits = limiter.rate
    /\ lim_pc = "idle"
    /\ lim_call = LimCall("new", 0, 0, FALSE, FALSE)
    /\ lim_nops = 0

\* RateLimiter::set_limit(bytes_per_second): *self = Self::new(..).
SetLimit(bps) ==
    /\ lim_pc = "idle"
    /\ lim_nops < MaxLimOps
    /\ lim_nops' = lim_nops + 1
    /\ bytes_per_second' = bps
    /\ limiter' = NewLimiter(bps)
    /\ ready_permits' = NewLimiter(bps).rate
    /\ lim_call' = LimCall("set_limit", 0, 0, FALSE, FALSE)
    /\ UNCHANGED lim_pc
    /\ UNCHANGED outsideLim

\* RateLimiter::try_acquire(bytes): true without a limiter; with one, the
\* answer of check_n, which takes the permits when it grants them.
TryAcquire(bytes) ==
    /\ lim_pc = "idle"
    /\ lim_nops < MaxLimOps
    /\ lim_nops' = lim_nops + 1
    /\ LET granted == ~limiter.some \/ ChunksOf(bytes) <= ready_permits
       IN  /\ lim_call' = LimCall("try_acquire", bytes, 0, FALSE, granted)
           /\ ready_permits' = IF limiter.some /\ granted
                       THEN ready_permits - ChunksOf(bytes) ELSE ready_permits
    /\ UNCHANGED << limiter, bytes_per_second, lim_pc >>
    /\ UNCHANGED outsideLim

\* RateLimiter::acquire(bytes) up to its loop: without a limiter it returns
\* at once.
AcquireCall(bytes) ==
    /\ lim_pc = "idle"
    /\ lim_nops < MaxLimOps
    /\ lim_nops' = lim_nops + 1
    /\ lim_call' = LimCall("acquire", bytes, 0, FALSE, ~limiter.some)
    /\ lim_pc' = IF limiter.some THEN "acquiring" ELSE "idle"
    /\ UNCHANGED << limiter, bytes_per_second, ready_permits >>
    /\ UNCHANGED outsideLim

\* One pass of the loop of acquire: limiter.until_ready().await returns
\* with a permit, at once if one is there.
UntilReady ==
    /\ lim_pc = "acquiring"
    /\ lim_call.permits < ChunksOf(lim_call.bytes)
    /\ ready_permits > 0
    /\ ready_permits' = ready_permits - 1
    /\ lim_call' = [lim_call EXCEPT !.permits = @ + 1]
    /\ UNCHANGED << limiter, bytes_per_second, lim_pc, lim_nops >>
    /\ UNCHANGED outsideLim

\* No permit is there: until_ready suspends acquire until time has passed
\* and the quota has one again.
UntilReadyWaits ==
    /\ lim_pc = "acquiring"
    /\ lim_call.permits < ChunksOf(lim_call.bytes)
    /\ ready_permits = 0
    /\ ready_permits' = 1
    /\ lim_call' = [lim_call EXCEPT !.suspended = TRUE]
    /\ UNCHANGED << limiter, bytes_per_second, lim_pc, lim_nops >>
    /\ UNCHANGED outsideLim

\* The loop of acquire is over: acquire returns.
AcquireReturn ==
    /\ lim_pc = "acquiring"
    /\ lim_call.permits >= ChunksOf(lim_call.bytes)
    /\ lim_pc' = "idle"
    /\ lim_call' = [lim_call EXCEPT !.ret = TRUE]
    /\ UNCHANGED << limiter, bytes_per_second, ready_permits, lim_nops >>
    /\ UNCHANGED outsideLim

\* ====================================================================
\* Part XII: Rebalancer
\* ====================================================================

\* A fraction num / den, den > 0, for the f64 values of the rebalancer.
Frac(num, den) == [num |-> num, den |-> den]

\* a < b on fractions.
FracLt(a, b) == a.num * b.den < b.num * a.den

\* The rebalancers of the model: new(manager) (0.2, 256 KiB, 32) and
\* with_config(manager, 0.5, 1, MaxInitSegments + 1).
RebConfigs ==
    { [slow_threshold_pct |-> Frac(1, 5),
       min_segment_size |-> DefaultMinSegmentSize,
       max_segments |-> DefaultMaxSegments],
      [slow_threshold_pct |-> Frac(1, 2), min_segment_size |-> 1,
       max_segments |-> MaxInitSegments + 1] }

\* The bdp arguments: None, and tcp_window times a square, so that
\* (bdp / tcp_window).sqrt() is a whole number.
RebBdps == {None} \cup { Some(k * k * TcpWindow) : k \in 0 .. 3 }

\* (bdp as f64 / tcp_window).sqrt(), on the arguments of the model.
BdpFactor(bdp) ==
    CHOOSE k \in 0 .. (bdp \div TcpWindow) : k * k * TcpWindow = bdp

\* SegmentManager::average_speed: the mean speed of the Active segments,
\* 0.0 without any.
AverageSpeed(segs) ==
    LET active == { k \in 1 .. Len(segs) : segs[k].status = "Active" }
    IN  IF active = {} THEN Frac(0, 1)
        ELSE Frac(SumOver([k \in active |-> segs[k].speed], active),
                  Cardinality(active))

\* Rebalancer::calculate_threshold(avg_speed, bdp)
CalculateThreshold(avg_speed, bdp, pct) ==
    IF bdp.some
    THEN LET scaled == Frac(pct.num * BdpFactor(bdp.val), pct.den)
             adjusted_pct == IF FracLt(Frac(1, 2), scaled) THEN Frac(1, 2)
                             ELSE scaled
         IN  Frac(avg_speed.num * adjusted_pct.num,
                  avg_speed.den * adjusted_pct.den)
    ELSE Frac(avg_speed.num * pct.num, avg_speed.den * pct.den)

RECURSIVE RebalanceFrom(_, _, _, _, _, _)
\* The loop of check_and_rebalance_with_bdp from the k-th segment of the
\* snapshot on: live is the manager's list, which split_segment changes.
RebalanceFrom(k, snapshot, live, new_segments, slow_threshold, config) ==
    IF k > Len(snapshot) THEN [segments |-> live, ids |-> new_segments]
    ELSE LET segment == snapshot[k]
             remaining == SegRemaining(segment)
         IN  IF segment.status # "Active"
                \/ remaining < config.min_segment_size * 2
                \/ ~(FracLt(Frac(segment.speed, 1), slow_threshold)
                     /\ remaining > 0)
             THEN RebalanceFrom(k + 1, snapshot, live, new_segments,
                                slow_threshold, config)
             ELSE IF Len(snapshot) + Len(new_segments) >= config.max_segments
             THEN [segments |-> live, ids |-> new_segments]
             ELSE IF SplitRefused(live, segment.id)
             THEN RebalanceFrom(k + 1, snapshot, live, new_segments,
                                slow_threshold, config)
             ELSE RebalanceFrom(k + 1, snapshot,
                                SplitApplied(live, segment.id),
                                Append(new_segments, Len(live)),
                                slow_threshold, config)

\* check_and_rebalance_with_bdp(bdp): the manager's list and the ids
\* returned.
Rebalanced(segs, bdp, config) ==
    LET avg_speed == AverageSpeed(segs)
    IN  IF avg_speed.num <= 0 THEN [segments |-> segs, ids |-> << >>]
        ELSE IF Len(segs) >= config.max_segments
        THEN [segments |-> segs, ids |-> << >>]
        ELSE RebalanceFrom(1, segs, segs, << >>,
                           CalculateThreshold(avg_speed, bdp,
                                              config.slow_threshold_pct),
                           config)

\* No rebalancer.
RebIdle ==
    /\ rb = [slow_threshold_pct |-> Frac(1, 5),
             min_segment_size |-> DefaultMinSegmentSize,
             max_segments |-> DefaultMaxSegments]
    /\ rb_ret = << >>

\* The rebalancer that will be made for the manager.
RebInit ==
    /\ rb \in RebConfigs
    /\ rb_ret = << >>

\* The variables of the parts other than III and XII.
outsideMgrReb == << cliVars, orchVars, splitVars, protoVars, poolVars, msVars,
                    scoreVars, ctlVars, idVars, limVars, dqVars >>

\* Rebalancer::check_and_rebalance_with_bdp(bdp); check_and_rebalance is
\* the call with None.
CheckAndRebalance(bdp) ==
    /\ mgr_pc \in {"built", "ready"}
    /\ nops < MaxOps
    /\ nops' = nops + 1
    /\ LET r == Rebalanced(msegments, bdp, rb)
       IN  /\ msegments' = r.segments
           /\ rb_ret' = r.ids
    /\ last_call' = Call("check_and_rebalance", 0, NoSegment)
    /\ UNCHANGED << mgr_pc, mtotal_size, min_segment_size, max_segments, rb >>
    /\ UNCHANGED outsideMgrReb

\* NetworkMonitor::optimal_segment_count(file_size) for the monitor's
\* bandwidth_delay_product bdp: None for None or 0, else ceil(bdp / 65536)
\* within 1 .. max_connections of the size bucket.
OptimalSegmentCount(bdp, file_size) ==
    IF ~bdp.some \/ bdp.val = 0 THEN None
    ELSE LET min_connections == CeilDiv(bdp.val, TcpWindow)
             max_connections == IF file_size <= 1000000 THEN 1
                                ELSE IF file_size <= 10000000 THEN 4
                                ELSE IF file_size <= 100000000 THEN 8
                                ELSE IF file_size <= 1000000000 THEN 16
                                ELSE 32
         IN  Some(IF min_connections < 1 THEN 1
                  ELSE Minimum(min_connections, max_connections))

\* ====================================================================
\* Part XIII: DownloadQueue
\* ====================================================================

Dequeuers == 1 .. NumDequeuers
DqIds == 1 .. MaxDqIds

\* priority as u8: Critical 0, High 1, Normal 2, Low 3, Background 4.
PriorityRanks == 0 .. 4

\* The priorities callers pass: Critical, Normal and Background.
CallerPriorities == {0, 2, 4}

\* A QueuedDownload; seq records the order of the insertions.
Queued(id, priority, seq) == [id |-> id, priority |-> priority, seq |-> seq]

\* Option<QueuedDownload>
NoQueued == [some |-> FALSE, item |-> Queued(0, 0, 0)]
SomeQueued(item) == [some |-> TRUE, item |-> item]

\* The insert position with >= in place of >.
InsertPosBeforeEqual(q, priority) ==
    LET later == { k \in 1 .. Len(q) : q[k].priority >= priority }
    IN  IF later = {} THEN Len(q) + 1
        ELSE CHOOSE k \in later : \A j \in later : k <= j

\* queue.iter().position(|d| d.priority as u8 > priority as u8)
\*      .unwrap_or(queue.len()), as a 1-based index.
InsertPos(q, priority) ==
    LET later == { k \in 1 .. Len(q) : q[k].priority > priority }
    IN  IF later = {} THEN Len(q) + 1
        ELSE CHOOSE k \in later : \A j \in later : k <= j

\* queue.insert(pos, item)
InsertAt(q, pos, item) ==
    SubSeq(q, 1, pos - 1) \o << item >> \o SubSeq(q, pos, Len(q))

\* queue.remove(pos)
RemoveAt(q, pos) == SubSeq(q, 1, pos - 1) \o SubSeq(q, pos + 1, Len(q))

\* queue.iter().position(|d| d.id == id), as a 1-based index, 0 for None.
PositionOf(q, id) ==
    LET found == { k \in 1 .. Len(q) : q[k].id = id }
    IN  IF found = {} THEN 0
        ELSE CHOOSE k \in found : \A j \in found : k <= j

DqCall(op, id, ret) == [op |-> op, id |-> id, ret |-> ret]

\* No queue.
DqIdle ==
    /\ dq_queue = << >>
    /\ dq_max = 0
    /\ dq_active = 0
    /\ dq_pc = [t \in Dequeuers |-> "none"]
    /\ dq_call = DqCall("none", 0, NoQueued)
    /\ dq_seq = 0
    /\ dq_nops = 0

\* DownloadQueue::new(max_concurrent)
DqInit ==
    /\ dq_queue = << >>
    /\ dq_max \in 0 .. MaxConcurrent
    /\ dq_active = 0
    /\ dq_pc = [t \in Dequeuers |-> "idle"]
    /\ dq_call = DqCall("new", 0, NoQueued)
    /\ dq_seq = 0
    /\ dq_nops = 0

\* A call starts.
DqStart ==
    /\ dq_nops < MaxDqOps
    /\ dq_nops' = dq_nops + 1

\* DownloadQueue::enqueue(download)
Enqueue(id, priority) ==
    /\ \A t \in Dequeuers : dq_pc[t] # "none"
    /\ DqStart
    /\ dq_queue' = InsertAt(dq_queue, InsertPos(dq_queue, priority),
                            Queued(id, priority, dq_seq + 1))
    /\ dq_seq' = dq_seq + 1
    /\ dq_call' = DqCall("enqueue", id, NoQueued)
    /\ UNCHANGED << dq_max, dq_active, dq_pc >>
    /\ UNCHANGED outsideDq

\* DownloadQueue::dequeue, its test: active_count is read, and None is
\* returned when it has reached max_concurrent.
DequeueCheck(t) ==
    /\ dq_pc[t] = "idle"
    /\ DqStart
    /\ IF dq_active >= dq_max
       THEN /\ dq_call' = DqCall("dequeue", 0, NoQueued)
            /\ UNCHANGED dq_pc
       ELSE /\ dq_pc' = [dq_pc EXCEPT ![t] = "checked"]
            /\ UNCHANGED dq_call
    /\ UNCHANGED << dq_queue, dq_max, dq_active, dq_seq >>
    /\ UNCHANGED outsideDq

\* DownloadQueue::dequeue from queue.lock() on: pop_front()? returns None
\* on an empty queue, else active_count is incremented.
DequeuePop(t) ==
    /\ dq_pc[t] = "checked"
    /\ dq_pc' = [dq_pc EXCEPT ![t] = "idle"]
    /\ IF dq_queue = << >>
       THEN /\ dq_call' = DqCall("dequeue", 0, NoQueued)
            /\ UNCHANGED << dq_queue, dq_active >>
       ELSE /\ dq_call' = DqCall("dequeue", 0, SomeQueued(Head(dq_queue)))
            /\ dq_queue' = Tail(dq_queue)
            /\ dq_active' = dq_active + 1
    /\ UNCHANGED << dq_max, dq_seq, dq_nops >>
    /\ UNCHANGED outsideDq

\* DownloadQueue::complete(_id): the id is not used.
Complete ==
    /\ \A t \in Dequeuers : dq_pc[t] # "none"
    /\ DqStart
    /\ dq_active' = SatSub(dq_active, 1)
    /\ dq_call' = DqCall("complete", 0, NoQueued)
    /\ UNCHANGED << dq_queue, dq_max, dq_pc, dq_seq >>
    /\ UNCHANGED outsideDq

\* DownloadQueue::cancel(id)
Cancel(id) ==
    /\ \A t \in Dequeuers : dq_pc[t] # "none"
    /\ DqStart
    /\ dq_queue' = SelectSeq(dq_queue, LAMBDA d : d.id # id)
    /\ dq_call' = DqCall("cancel", id, NoQueued)
    /\ UNCHANGED << dq_max, dq_active, dq_pc, dq_seq >>
    /\ UNCHANGED outsideDq

\* DownloadQueue::reorder(id, new_priority)
Reorder(id, new_priority) ==
    /\ \A t \in Dequeuers : dq_pc[t] # "none"
    /\ DqStart
    /\ LET pos == PositionOf(dq_queue, id)
       IN  IF pos = 0
           THEN UNCHANGED << dq_queue, dq_seq >>
           ELSE LET removed == RemoveAt(dq_queue, pos)
                IN  /\ dq_queue' =
                          InsertAt(removed, InsertPos(removed, new_priority),
                                   Queued(id, new_priority, dq_seq + 1))
                    /\ dq_seq' = dq_seq + 1
    /\ dq_call' = DqCall("reorder", id, NoQueued)
    /\ UNCHANGED << dq_max, dq_active, dq_pc >>
    /\ UNCHANGED outsideDq

WorkerStep(w) ==
    \/ WorkerPopSome(w)
    \/ WorkerExit(w)
    \/ WorkerWrite(w)
    \/ WorkerFetchOk(w)

Next ==
    \/ \E w \in Workers : WorkerPopSome(w)
    \/ \E w \in Workers : WorkerExit(w)
    \/ \E w \in Workers : WorkerWrite(w)
    \/ \E w \in Workers : WorkerFetchOk(w)
    \/ \E w \in Workers : WorkerFetchErr(w)
    \/ RebalanceSample
    \/ RebalanceSpeeds
    \/ RebalanceSteal
    \/ SpawnerExit
    \/ SpawnerSpawn
    \/ MainJoin
    \/ MainReturn

Init == CliInit /\ OrchInit /\ MgrIdle /\ SplitIdle /\ ProtoIdle
    /\ PoolIdle /\ MsIdle /\ ScoreIdle /\ CtlIdle /\ IdIdle /\ LimIdle
    /\ RebIdle /\ DqIdle

Spec == Init /\ [][Next]_vars

\* The tasks run on tokio's multi-threaded scheduler, which polls every ready
\* task and completes every sleep: each task that can take a step of its own
\* eventually takes one. A failing fetch is the network's step, not the
\* worker's, and is not forced.
Rebalancer == RebalanceSample \/ RebalanceSpeeds \/ RebalanceSteal
Spawner == SpawnerExit \/ SpawnerSpawn
Main == MainJoin \/ MainReturn

FairSpec ==
    /\ Init
    /\ [][Next]_vars
    /\ \A w \in Workers : WF_vars(WorkerStep(w))
    /\ WF_vars(Rebalancer)
    /\ WF_vars(Spawner)
    /\ WF_vars(Main)

OrchNext ==
    \/ AddDownload
    \/ \E id \in Ids : PauseDownload(id)
    \/ \E id \in Ids : ResumeDownload(id)
    \/ \E id \in Ids : CancelDownload(id)
    \/ SetBandwidthLimit
    \/ \E id \in Ids : RunStart(id)
    \/ \E id \in Ids : RunProbeErr(id)
    \/ \E id \in Ids : RunProbeOk(id)
    \/ \E id \in Ids, k \in SegmentIndexes : SegmentStart(id, k)
    \/ \E id \in Ids, k \in SegmentIndexes : SegmentWrite(id, k)
    \/ \E id \in Ids, k \in SegmentIndexes : SegmentCount(id, k)
    \/ \E id \in Ids, k \in SegmentIndexes : SegmentOk(id, k)
    \/ \E id \in Ids, k \in SegmentIndexes : SegmentErr(id, k)
    \/ \E id \in Ids, k \in SegmentIndexes : SegmentPanic(id, k)
    \/ \E id \in Ids : RunJoin(id)
    \/ \E id \in Ids : RunFinish(id)
    \/ \E id \in Ids : ProgressTick(id)

OrchSpec == Init /\ [][OrchNext]_vars

MgrNext ==
    \/ MgrNew
    \/ MgrWithConfig
    \/ MgrWithSegments
    \/ MgrInitialize
    \/ \E id \in MgrIds : UpdateSegment(id)
    \/ \E id \in MgrIds : MarkComplete(id)
    \/ \E id \in MgrIds : MarkError(id)
    \/ \E id \in MgrIds : SplitSegment(id)

MgrSpec == Init /\ [][MgrNext]_vars

SplitNext == SplitCall

\* split_range on every pair of arguments within the bounds.
InitSplit == CliInit /\ OrchInit /\ MgrIdle /\ SplitInit /\ ProtoIdle
    /\ PoolIdle /\ MsIdle /\ ScoreIdle /\ CtlIdle /\ IdIdle /\ LimIdle
    /\ RebIdle /\ DqIdle

SplitSpec == InitSplit /\ [][SplitNext]_vars

ProtoNext ==
    \/ ProbeRequest
    \/ FetchRequest
    \/ FetchNoResponse
    \/ \E status \in Statuses : FetchResponse(status)
    \/ \E c \in Chunks : FetchChunk(c)
    \/ FetchStreamError
    \/ FetchStreamEnd

\* One probe or fetch_range call, on every request within the bounds.
InitProto == CliInit /\ OrchInit /\ MgrIdle /\ SplitIdle /\ ProtoInit
    /\ PoolIdle /\ MsIdle /\ ScoreIdle /\ CtlIdle /\ IdIdle /\ LimIdle
    /\ RebIdle /\ DqIdle

ProtoSpec == InitProto /\ [][ProtoNext]_vars

PoolNext ==
    \/ \E host \in PoolHosts, is_http2 \in BOOLEAN : Acquire(host, is_http2)
    \/ \E host \in PoolHosts : Release(host)
    \/ \E host \in PoolHosts : SetHttp2(host)
    \/ \E host \in PoolHosts : CanConnectCall(host)

PoolSpec == Init /\ [][PoolNext]_vars

MsNext ==
    \/ \E seg \in MsSegments : AssignSegment(seg)
    \/ \E seg \in MsSegments : ReassignSegment(seg)
    \/ \E i \in MirrorIdx, speed \in {0, MaxSample} : RecordProgress(i, speed)
    \/ \E i \in MirrorIdx : RecordError(i)
    \/ \E seg \in MsSegments : CompleteSegment(seg)
    \/ SyncMirrorStats

\* A manager over every mirror set within the bounds.
InitMs == CliInit /\ OrchInit /\ MgrIdle /\ SplitIdle /\ ProtoIdle
    /\ PoolIdle /\ MsInit /\ ScoreIdle /\ CtlIdle /\ IdIdle /\ LimIdle
    /\ RebIdle /\ DqIdle

MsSpec == InitMs /\ [][MsNext]_vars

ScoreNext ==
    \/ \E e \in ScoreErrors : ScoreMoreErrors(e)
    \/ \E a \in ScoreActives : ScoreMoreActive(a)
    \/ \E s \in ScoreSpeeds : ScoreMoreSpeed(s)

\* The scores on every input within the bounds.
InitScore == CliInit /\ OrchInit /\ MgrIdle /\ SplitIdle /\ ProtoIdle
    /\ PoolIdle /\ MsIdle /\ ScoreInit /\ CtlIdle /\ IdIdle /\ LimIdle
    /\ RebIdle /\ DqIdle

ScoreSpec == InitScore /\ [][ScoreNext]_vars

CtlNext ==
    \/ CtlTick
    \/ \E bdp \in CtlBdps : EvaluateLoad(bdp)
    \/ EvaluateFinish
    \/ RecordSplit

\* Every controller within the bounds.
InitCtl == CliInit /\ OrchInit /\ MgrIdle /\ SplitIdle /\ ProtoIdle
    /\ PoolIdle /\ MsIdle /\ ScoreIdle /\ CtlInit /\ IdIdle /\ LimIdle
    /\ RebIdle /\ DqIdle

CtlSpec == InitCtl /\ [][CtlNext]_vars

IdNext ==
    \/ \E o \in Orchestrators : NextDownloadId(o)
    \/ \E o \in Orchestrators : InsertTask(o)
    \/ \E o \in Orchestrators, id \in 1 .. MaxIdAdds :
          IdSetState(o, id, "Paused")

IdSpec == Init /\ [][IdNext]_vars

LimNext ==
    \/ \E bps \in LimLimits : SetLimit(bps)
    \/ \E bytes \in LimBytes : TryAcquire(bytes)
    \/ \E bytes \in LimBytes : AcquireCall(bytes)
    \/ UntilReady
    \/ UntilReadyWaits
    \/ AcquireReturn

\* A limiter for every limit within the bounds.
InitLim == CliInit /\ OrchInit /\ MgrIdle /\ SplitIdle /\ ProtoIdle
    /\ PoolIdle /\ MsIdle /\ ScoreIdle /\ CtlIdle /\ IdIdle /\ LimInit
    /\ RebIdle /\ DqIdle

LimSpec == InitLim /\ [][LimNext]_vars

RebNext ==
    \/ MgrNew
    \/ MgrWithConfig
    \/ MgrWithSegments
    \/ MgrInitialize
    \/ \E id \in MgrIds : UpdateSegment(id)
    \/ \E id \in MgrIds : MarkComplete(id)
    \/ \E id \in MgrIds : MarkError(id)
    \/ \E bdp \in RebBdps : CheckAndRebalance(bdp)

\* A manager yet to be constructed and the rebalancer made for it.
InitReb == CliInit /\ OrchInit /\ MgrIdle /\ SplitIdle /\ ProtoIdle
    /\ PoolIdle /\ MsIdle /\ ScoreIdle /\ CtlIdle /\ IdIdle /\ LimIdle
    /\ RebInit /\ DqIdle

RebSpec == InitReb /\ [][RebNext]_vars

\* SegmentManager::with_segments(total_size, 4), as download_segmented_adaptive
\* builds it, on a file of 4 * 2 * 256 KiB.
MgrFourSegments ==
    /\ mgr_pc = "ready"
    /\ mtotal_size = 4 * (2 * DefaultMinSegmentSize)
    /\ msegments = SegmentsOf(SplitRange(mtotal_size, 4))
    /\ min_segment_size = DefaultMinSegmentSize
    /\ max_segments = DefaultMaxSegments
    /\ last_call = Call("with_segments", 0, NoSegment)
    /\ nops = 0

RebRunNext ==
    \/ \E id \in MgrIds : UpdateSegment(id)
    \/ \E id \in MgrIds : MarkComplete(id)
    \/ \E id \in MgrIds : MarkError(id)
    \/ \E bdp \in RebBdps : CheckAndRebalance(bdp)

\* A manager of four segments and the rebalancer made for it.
InitRebRun == CliInit /\ OrchInit /\ MgrFourSegments /\ SplitIdle /\ ProtoIdle
    /\ PoolIdle /\ MsIdle /\ ScoreIdle /\ CtlIdle /\ IdIdle /\ LimIdle
    /\ RebInit /\ DqIdle

RebRunSpec == InitRebRun /\ [][RebRunNext]_vars

RebSplitNext ==
    \/ MgrNew
    \/ MgrWithConfig
    \/ MgrWithSegments
    \/ MgrInitialize
    \/ \E id \in MgrIds : UpdateSegment(id)
    \/ \E id \in MgrIds : SplitSegment(id)
    \/ \E bdp \in RebBdps : CheckAndRebalance(bdp)

\* Rebalance passes between the caller's own split_segment calls.
RebSplitSpec == InitReb /\ [][RebSplitNext]_vars

\* The segmented download with its pool of workers, in the runs where the
\* rebalance task finds nothing to steal, until main awaits that task: the
\* spawner may start helpers up to max_workers.
WorkersNext ==
    \/ \E w \in Workers : WorkerPopSome(w)
    \/ \E w \in Workers : WorkerExit(w)
    \/ \E w \in Workers : WorkerWrite(w)
    \/ \E w \in Workers : WorkerFetchOk(w)
    \/ \E w \in Workers : WorkerFetchErr(w)
    \/ SpawnerExit
    \/ SpawnerSpawnAny
    \/ MainJoin

WorkersSpec == Init /\ [][WorkersNext]_vars

DqNext ==
    \/ \E id \in DqIds, priority \in CallerPriorities : Enqueue(id, priority)
    \/ \E t \in Dequeuers : DequeueCheck(t)
    \/ \E t \in Dequeuers : DequeuePop(t)
    \/ Complete
    \/ \E id \in DqIds : Cancel(id)
    \/ \E id \in DqIds, priority \in CallerPriorities : Reorder(id, priority)

\* A new queue.
InitDq == CliInit /\ OrchInit /\ MgrIdle /\ SplitIdle /\ ProtoIdle
    /\ PoolIdle /\ MsIdle /\ ScoreIdle /\ CtlIdle /\ IdIdle /\ LimIdle
    /\ RebIdle /\ DqInit

DqSpec == InitDq /\ [][DqNext]_vars

\* ====================================================================
\* Claims about download_segmented_adaptive
\* ====================================================================

\* C1: no file offset is written by more than one work item: once the
\* rebalancer has stolen [split_point, end), the worker already fetching the
\* segment writes nothing at or after split_point.
C1_OffsetWrittenByOneItem ==
    \A o \in Offsets : Cardinality(writers[o]) <= 1

\* C2: every segment's downloaded counter is at most the segment's length,
\* and the sum of the per-segment counters and the global counter are at
\* most total_size.
C2_DownloadedWithinTotal ==
    /\ \A i \in Segs : trk_downloaded[i] <= RangeLen(SegRange(i))
    /\ SumOver(trk_downloaded, Segs) <= TotalSize
    /\ global_downloaded <= TotalSize

\* C3: when the function returns Ok and no fetch failed, every offset of
\* [0, total_size) holds the resource's byte for that offset.
C3_ReturnsWithWholeFile ==
    (mpc = "returned" /\ nfail = 0) =>
        \A o \in Offsets : file[o] = ResourceByte(o)

\* C4: under fair scheduling the function eventually returns, also when a
\* fetch_range call returns an error.
C4_EventuallyReturns == <>(mpc = "returned")

\* The queue holds the part of worker w's item that w has not written.
RemainderQueued(q, w) ==
    \E k \in 1 .. Len(q) :
        /\ q[k].start = witem[w].start + wwritten[w]
        /\ q[k].end = witem[w].end

\* C5: a fetch that fails with a Network or RateLimited error after some of
\* its bytes were written leaves the unwritten remainder of its range on the
\* work queue.
C5_RemainderRequeued ==
    [][\A w \in Workers :
          (/\ wpc[w] = "fetch"
           /\ wwritten[w] > 0
           /\ nfail' > nfail
           /\ wpc'[w] = "pop")
          => RemainderQueued(queue', w)]_vars

\* ====================================================================
\* Claims about the orchestrator
\* ====================================================================

EventIndexes == 1 .. Len(events)

\* Some download_segment task of the transfer returned an error.
FetchFailed(id) ==
    \E k \in DOMAIN seg_status[id] :
        seg_status[id][k] \in SegStatusErrors \cup SegStreamErrors

\* C6: a transfer one of whose fetch_range calls returned an error ends with
\* StateChange(Failed), and no Complete event is sent for its id.
C6_FetchErrorFailsTransfer ==
    \A id \in Ids :
        (run_pc[id] = "returned" /\ FetchFailed(id)) =>
            /\ \E i \in EventIndexes : events[i] = EvState(id, "Failed")
            /\ \A i \in EventIndexes : events[i] # EvComplete(id)

\* run_download has ended and the transfer failed: the probe failed, the
\* output file could not be created, or a segment task failed.
TransferFailed(id) ==
    \/ run_pc[id] \in {"probe_failed", "create_failed"}
    \/ /\ run_pc[id] = "returned"
       /\ \E k \in DOMAIN seg_status[id] : seg_status[id][k] \notin {"running", "ok"}

\* C7: a failed transfer has exactly one Error event, and a
\* StateChange(Failed) event after it.
C7_OneErrorThenFailed ==
    \A id \in Ids :
        TransferFailed(id) =>
            /\ Cardinality({ i \in EventIndexes : events[i] = EvError(id) }) = 1
            /\ \E i, j \in EventIndexes :
                  /\ i < j
                  /\ events[i] = EvError(id)
                  /\ events[j] = EvState(id, "Failed")

\* C8: once StateChange(Cancelled) was sent for a transfer that was
\* downloading a resource of non-zero size, no Complete event is sent for it.
C8_NoCompleteAfterCancel ==
    \A id \in Ids : \A h, i, j \in EventIndexes :
        (/\ h < i
         /\ i < j
         /\ total_size[id] > 0
         /\ events[h] = EvState(id, "Downloading")
         /\ events[i] = EvState(id, "Cancelled"))
        => events[j] # EvComplete(id)

\* The lifecycle: Pending -> Probing -> Downloading -> Complete | Failed |
\* Cancelled, Paused between Downloading and Downloading, cancellation from
\* any state that is not terminal.
Lifecycle ==
    { << "Pending", "Probing" >>, << "Probing", "Downloading" >>,
      << "Downloading", "Complete" >>, << "Downloading", "Failed" >>,
      << "Downloading", "Cancelled" >>, << "Downloading", "Paused" >>,
      << "Paused", "Downloading" >>, << "Pending", "Cancelled" >>,
      << "Probing", "Cancelled" >>, << "Paused", "Cancelled" >> }

\* C9: the state of a transfer held by the orchestrator starts as Pending and
\* changes only along the lifecycle: no command moves it out of a terminal
\* state, or into Paused or Downloading from Pending or Probing.
C9_StateFollowsLifecycle ==
    [][\A id \in DOMAIN downloads' :
          IF id \in DOMAIN downloads
          THEN \/ downloads'[id] = downloads[id]
               \/ << downloads[id], downloads'[id] >> \in Lifecycle
          ELSE downloads'[id] = "Pending"]_vars

\* C10: per transfer, DownloadAdded precedes every other event,
\* StateChange(Downloading) precedes every progress event, and nothing
\* follows the terminal Complete or Error event.
C10_EventsMonotonic ==
    \A id \in Ids : \A j \in EventIndexes :
        events[j].id = id =>
            /\ events[j].kind # "DownloadAdded" =>
                  \E i \in 1 .. (j - 1) : events[i] = EvAdded(id)
            /\ events[j].kind \in {"ProgressUpdate", "SpeedUpdate"} =>
                  \E i \in 1 .. (j - 1) : events[i] = EvState(id, "Downloading")
            /\ \A i \in 1 .. (j - 1) :
                  events[i].id = id => events[i].kind \notin {"Complete", "Error"}


\* C11: from the handling of PauseDownload(id) until ResumeDownload(id) is
\* handled (the stored state is Paused before and after the step), no segment
\* task of a transfer that has segments starts a fetch and no Complete event
\* is sent for it.
C11_PausedTransferStops ==
    [][\A id \in Ids :
          (/\ id \in DOMAIN downloads
           /\ downloads[id] = "Paused"
           /\ downloads'[id] = "Paused"
           /\ Len(osegments[id]) > 0)
          => /\ \A k \in DOMAIN seg_status[id] :
                   seg_status[id][k] = "spawned" => seg_status'[id][k] = "spawned"
             /\ \A j \in (Len(events) + 1) .. Len(events') :
                   events'[j] # EvComplete(id)]_vars

\* The probe answered without range support or without a size.
FallbackProbe(id) ==
    /\ probed[id].probed
    /\ (~probed[id].supports_range \/ ~probed[id].size.some)

\* C12: a transfer whose probe reports no range support, or no size, sends no
\* fetch_range request, and when its Complete event is sent exactly one
\* request, a fetch_full, was sent and its body delivered.
C12_FallbackUsesFetchFull ==
    \A id \in Ids :
        FallbackProbe(id)
        => /\ \A r \in DOMAIN requests[id] : requests[id][r] # "fetch_range"
           /\ (\E j \in EventIndexes : events[j] = EvComplete(id))
                 => requests[id] = << "fetch_full" >>


\* C17: while a transfer is downloading and its progress task is running, the
\* global downloaded counter equals the sum of the per-segment counters.
C17_GlobalEqualsSegmentSum ==
    \A id \in Ids :
        (run_pc[id] = "join" /\ ppc[id] = "sleep")
        => odownloaded[id] =
              SumOver(segment_downloaded[id], DOMAIN segment_downloaded[id])


\* ====================================================================
\* Claims about SegmentManager
\* ====================================================================

\* Two ranges that share a byte.
Overlap(r1, r2) ==
    /\ r1.start < r1.end
    /\ r2.start < r2.end
    /\ r1.start < r2.end
    /\ r2.start < r1.end

SegIndexes == 1 .. Len(msegments)

\* C13: in a manager that holds segments, no two segments overlap and the
\* segment ranges together are exactly [0, total_size): every range lies in
\* it and, there being no overlap, their lengths add up to total_size.
C13_SegmentsPartitionTotal ==
    (mgr_pc = "ready" /\ Len(msegments) > 0)
    => /\ \A a, b \in SegIndexes :
             a # b => ~Overlap(msegments[a].range, msegments[b].range)
       /\ \A a \in SegIndexes :
             /\ msegments[a].range.start <= msegments[a].range.end
             /\ msegments[a].range.end <= mtotal_size
       /\ SumOver([a \in SegIndexes |-> RangeLen(msegments[a].range)], SegIndexes)
             = mtotal_size

\* Integer division by 2 that rounds towards zero.
Half(x) == IF x >= 0 THEN x \div 2 ELSE 0 - ((0 - x) \div 2)

\* The step is a call of split_segment.
IsSplitCall == nops' = nops + 1 /\ last_call'.op = "split_segment"

\* C14: a successful split_segment(id) of a segment [s, e) with downloaded d
\* splits at p = s + d + (e - s - d) / 2 (rounded towards zero): the parent
\* becomes [s, p) with d unchanged, the child returned (and appended) is
\* [p, e) with downloaded 0, status Pending and the old segment count as id,
\* and s <= p <= e.
C14_SplitPostcondition ==
    [][(IsSplitCall /\ last_call'.ret.some)
       => LET id == last_call'.id
              seg == msegments[id + 1]
              s == seg.range.start
              e == seg.range.end
              d == seg.downloaded
              p == s + d + Half(e - s - d)
              parent == msegments'[id + 1]
              child == last_call'.ret.seg
          IN  /\ parent.range = [start |-> s, end |-> p]
              /\ parent.downloaded = d
              /\ child = [id |-> Len(msegments),
                          range |-> [start |-> p, end |-> e],
                          downloaded |-> 0, status |-> "Pending"]
              /\ msegments'[Len(msegments) + 1] = child
              /\ s <= p
              /\ p <= e]_vars

\* C15: split_segment(id) returns None and leaves the segment list as it was
\* when the count is >= max_segments, when id names no segment, or when the
\* segment's remaining bytes are < 2 * min_segment_size; in every other case
\* it returns a segment and the list grows by exactly one.
C15_SplitRefusal ==
    [][IsSplitCall
       => LET id == last_call'.id
              n == Len(msegments)
              refused ==
                  \/ n >= max_segments
                  \/ id < 0
                  \/ id >= n
                  \/ SatSub(SatSub(msegments[id + 1].range.end,
                                   msegments[id + 1].range.start),
                            msegments[id + 1].downloaded) < 2 * min_segment_size
          IN  IF refused
              THEN ~last_call'.ret.some /\ msegments' = msegments
              ELSE /\ last_call'.ret.some
                   /\ Len(msegments') = n + 1
                   /\ \A k \in 1 .. n : k # id + 1 => msegments'[k] = msegments[k]]_vars

\* A split was refused for the remaining bytes alone: the id names a segment
\* and the count is below max_segments.
C15_RefusedForRemaining ==
    /\ last_call.op = "split_segment"
    /\ ~last_call.ret.some
    /\ HasSegment(msegments, last_call.id)
    /\ Len(msegments) < max_segments
    /\ Len(msegments) > 1

\* C16: every segment of the manager has downloaded <= range.len(), and its
\* status is Complete exactly when downloaded = range.len().
C16_DownloadedWithinRange ==
    \A a \in SegIndexes :
        /\ msegments[a].downloaded <= RangeLen(msegments[a].range)
        /\ (msegments[a].status = "Complete"
               <=> msegments[a].downloaded = RangeLen(msegments[a].range))


\* ====================================================================
\* Claims about split_range
\* ====================================================================

SrIndexes == 1 .. Len(sr_ranges)
SrLen(k) == RangeLen(sr_ranges[k])

\* C18: for total >= 1 and n >= 1 split_range(total, n) returns n ranges, the
\* first starting at 0, the last ending at total, each starting where the one
\* before it ends, whose lengths add up to total and differ by at most 1.
C18_SplitRangeCoversEvenly ==
    (sr_pc = "done" /\ sr_total >= 1 /\ sr_n >= 1)
    => /\ Len(sr_ranges) = sr_n
       /\ sr_ranges[1].start = 0
       /\ sr_ranges[sr_n].end = sr_total
       /\ \A k \in SrIndexes :
             /\ sr_ranges[k].start <= sr_ranges[k].end
             /\ k > 1 => sr_ranges[k].start = sr_ranges[k - 1].end
       /\ SumOver([k \in SrIndexes |-> SrLen(k)], SrIndexes) = sr_total
       /\ \A j, k \in SrIndexes : SrLen(j) - SrLen(k) <= 1

\* An uneven split: 10 bytes in 3 ranges.
C18_UnevenSplitDone ==
    sr_pc = "done" /\ sr_total = 10 /\ sr_n = 3 /\ Len(sr_ranges) = 3

\* C19: the first (total mod n) ranges returned by split_range(total, n) have
\* length floor(total / n) + 1 and all later ones floor(total / n);
\* split_range(100, 4) = [0,25),[25,50),[50,75),[75,100) and
\* split_range(10, 3) = [0,4),[4,7),[7,10).
C19_RemainderToFirstRanges ==
    (sr_pc = "done" /\ sr_n >= 1)
    => /\ \A k \in SrIndexes :
             SrLen(k) = (sr_total \div sr_n)
                           + (IF k <= sr_total % sr_n THEN 1 ELSE 0)
       /\ (sr_total = 100 /\ sr_n = 4)
             => sr_ranges = << [start |-> 0, end |-> 25], [start |-> 25, end |-> 50],
                               [start |-> 50, end |-> 75], [start |-> 75, end |-> 100] >>
       /\ (sr_total = 10 /\ sr_n = 3)
             => sr_ranges = << [start |-> 0, end |-> 4], [start |-> 4, end |-> 7],
                               [start |-> 7, end |-> 10] >>

\* split_range(100, 4) has returned four ranges.
C19_EvenSplitDone ==
    sr_pc = "done" /\ sr_total = 100 /\ sr_n = 4 /\ Len(sr_ranges) = 4

\* C20: split_range(total, n) returns the empty list exactly when n = 0 or
\* total = 0.
C20_EmptyExactlyOnZero ==
    sr_pc = "done" => (sr_ranges = << >> <=> (sr_n = 0 \/ sr_total = 0))

\* split_range(0, 3) has returned the empty list.
C20_ZeroTotalDone ==
    sr_pc = "done" /\ sr_total = 0 /\ sr_n = 3 /\ sr_ranges = << >>

\* ====================================================================
\* Claims about the downloaders' requests
\* ====================================================================

\* C21: every Range header sent by fetch_range or probe is bytes=START-END
\* with START <= END and END = range.end - 1 computed without u64 underflow:
\* every range the planner hands to fetch_range is non-empty (also when the
\* requested segment count exceeds total_size), and the probe of either
\* downloader sends exactly bytes=0-0.
C21_RangeHeaderWellFormed ==
    /\ fpc # "panicked"
    /\ req.op = "fetch_range" /\ fpc \notin {"idle", "call"} =>
          req.range.start < req.range.end
    /\ header.sent =>
          /\ ~header.last_is_max
          /\ header.start <= header.last
          /\ req.op = "fetch_range" =>
                /\ header.start = req.range.start
                /\ header.last + 1 = req.range.end
          /\ req.op = "probe" => header = RangeValue(0, 0, FALSE)

\* The calls made on the sink, by kind.
SinkWrites == SelectSeq(sink, LAMBDA c : c.call = "write")
SinkFlushes == SelectSeq(sink, LAMBDA c : c.call = "flush")

\* C22: fetch_range maps the response status to its outcome: 206 streams the
\* body, every chunk written to the sink in arrival order and the sink
\* flushed once at stream end; 200 fails with RangeNotSupported, 429 with
\* RateLimited, any other status with Http{status}; on a failing status the
\* sink receives no write and no flush.
C22_StatusDecidesOutcome ==
    /\ fstatus = 0 => sink = << >>
    /\ fstatus = 200 => sink = << >> /\ fresult = Err("RangeNotSupported")
    /\ fstatus = 429 => sink = << >> /\ fresult = Err("RateLimited")
    /\ fstatus \notin {0, 200, 206, 429} =>
          sink = << >> /\ fresult = ErrHttp(fstatus)
    /\ fstatus = 206 =>
          /\ [i \in 1 .. Len(SinkWrites) |-> SinkWrites[i].data] = arrived
          /\ Len(SinkFlushes) <= 1
          /\ Len(SinkFlushes) = 1 =>
                fpc = "done" /\ sink[Len(sink)].call = "flush"
          /\ fresult.ok => Len(SinkFlushes) = 1
          /\ fresult.done /\ ~fresult.ok => fresult.err \in {"Network", "Io"}

\* C22 witness: a 206 response whose body came in two different chunks has
\* been streamed to its end and fetch_range returned Ok.
C22_StreamedToEnd ==
    /\ fstatus = 206
    /\ fresult = Ok
    /\ Len(arrived) = 2
    /\ arrived[1] # arrived[2]

\* ====================================================================
\* Claims about ConnectionPool
\* ====================================================================

\* 0 <= active_connections <= the limit of the host's current class.
PoolWithinLimit ==
    \A h \in PoolHosts :
        hosts[h].known =>
            /\ hosts[h].active_connections >= 0
            /\ hosts[h].active_connections <= HostLimit(hosts[h])

\* acquire returns true exactly when it increments the host's count, and
\* release never takes the count below 0.
PoolCallEffect ==
    \A h \in PoolHosts :
        /\ pool_call'.op = "acquire" /\ pool_call'.host = h =>
              (pool_call'.ret <=>
                  hosts'[h].active_connections =
                      hosts[h].active_connections + 1)
        /\ pool_call'.op = "release" /\ pool_call'.host = h =>
              hosts'[h].active_connections >= 0

\* C23: under any interleaving of acquire, release and set_http2, each
\* host's active_connections stays within 0 .. the limit of the host's
\* current protocol class; acquire returns true exactly when it increments;
\* release never goes below 0.
C23_ActiveWithinClassLimit == []PoolWithinLimit /\ [][PoolCallEffect]_vars

\* ====================================================================
\* Claims about MultiSourceManager and the mirror score
\* ====================================================================

\* A call on the manager has just returned.
MsCalled(op, arg) ==
    /\ ms_nops' = ms_nops + 1
    /\ ms_call'.op = op
    /\ ms_call'.arg = arg

\* What reassign_segment(seg) of a segment assigned to source s is said to
\* do.
ReassignEffect(seg) ==
    LET s == segment_assignments[seg].idx
        ret == ms_call'.ret
    IN  IF Len(mirrors) >= 2
        THEN /\ ret.some
             /\ ret.idx # s
             /\ segment_assignments'[seg] = ret
             /\ source_stats'[s].active_segments =
                   source_stats[s].active_segments - 1
             /\ source_stats'[ret.idx].active_segments =
                   source_stats[ret.idx].active_segments + 1
        ELSE /\ ret = NoSource
             /\ segment_assignments' = segment_assignments
             /\ \A i \in MirrorIdx :
                   source_stats'[i].active_segments =
                       source_stats[i].active_segments

\* C24: reassign_segment(seg) of a segment assigned to source s, with two
\* mirrors or more, returns a source other than s, records it as the
\* assignment, takes 1 off the active_segments of s and adds 1 to those of
\* the new source; with a single mirror it returns None and changes neither
\* the assignment nor any active_segments counter.
C24_ReassignMovesOneSegment ==
    [][\A seg \in MsSegments :
          MsCalled("reassign_segment", seg) /\ segment_assignments[seg].some
              => ReassignEffect(seg)]_vars

\* The score as documented, on the manager's own counters of source i:
\*   (speed + epsilon) * priority_boost * 1/(1 + 0.5 errors) * 1/(1 + 0.1 active)
DocumentedScore(i) ==
    LET s == source_stats[i]
        speed == AvgSpeed(s)
    IN  Score((speed.num + Epsilon * speed.den)
                  * PriorityBoost2(mirrors[i + 1]) * 10,
              speed.den * (2 + s.errors) * LoadDen(s.active_segments),
              Wrapped(s.active_segments))

\* Source i has the highest documented score among the candidates.
HighestDocumented(i, candidates) ==
    /\ i \in candidates
    /\ \A j \in candidates : ~ScoreGt(DocumentedScore(j), DocumentedScore(i))

\* C25: assign_segment assigns the segment to the source with the highest
\* score (speed + epsilon) * priority_boost * 1/(1 + 0.5 errors)
\* * 1/(1 + 0.1 active) on the manager's current counters, so that errors
\* recorded and active-segment changes made so far count in the very next
\* selection; reassign_segment ranks the sources other than the excluded
\* one by the same score.
C25_SelectsHighestScore ==
    [][\A seg \in MsSegments :
          /\ MsCalled("assign_segment", seg) =>
                HighestDocumented(ms_call'.ret.idx,
                                  0 .. (Len(mirrors) - 1))
          /\ MsCalled("reassign_segment", seg) /\ ms_call'.ret.some =>
                HighestDocumented(ms_call'.ret.idx,
                    { j \in 0 .. (Len(mirrors) - 1) :
                        ~(segment_assignments[seg].some
                          /\ j = segment_assignments[seg].idx) })]_vars

\* C26: the score of a source does not rise with its error count nor with
\* its active-segment count, and does not fall with its average speed, the
\* other inputs and the priority being the same, for the score of
\* best_mirror and for the score of reassign_segment.
C26_ScoreMonotone ==
    sc_pc = "done" =>
        /\ sc_out.raised \in {"errors", "active"} =>
              /\ ~ScoreGt(sc_out.hi.mirror, sc_out.lo.mirror)
              /\ ~ScoreGt(sc_out.hi.reassign, sc_out.lo.reassign)
        /\ sc_out.raised = "speed" =>
              /\ ~ScoreGt(sc_out.lo.mirror, sc_out.hi.mirror)
              /\ ~ScoreGt(sc_out.lo.reassign, sc_out.hi.reassign)

\* C26 witness: both scores have been computed for more errors, and both
\* are strictly lower.
C26_LowerWithMoreErrors ==
    /\ sc_pc = "done"
    /\ sc_out.raised = "errors"
    /\ ScoreGt(sc_out.lo.mirror, sc_out.hi.mirror)
    /\ ScoreGt(sc_out.lo.reassign, sc_out.hi.reassign)

\* ====================================================================
\* Claims about AdaptiveController
\* ====================================================================

\* evaluate returns in this step.
EvaluateReturns == ctl_nops' = ctl_nops + 1 /\ ctl_ret'.op = "evaluate"

\* The segment count evaluate works from: the one it loaded.
EvaluateCurrent == IF ev_pc = "loaded" THEN ev_local.current
                   ELSE current_segments

\* The target segment count of a bdp: ceil(bdp / 65536) within
\* 1 .. max_segments.
EvaluateTarget(bdp) ==
    LET t == (bdp + 65535) \div 65536
    IN  IF t < 1 THEN 1
        ELSE IF t > ctl.max_segments THEN ctl.max_segments
        ELSE t

\* C27: when evaluate returns Split{count}, target > current, count =
\* min(target - current, 4), file_size / (current + count) >=
\* min_segment_size and current_segments becomes current + count, which is
\* at most max_segments; when target <= current, when bdp is None or when
\* the average would be below min_segment_size, it returns None; and a call
\* that returns None leaves current_segments as it is.
C27_SplitOnlyWithinLimits ==
    [][EvaluateReturns =>
          LET ret == ctl_ret'.ret
              current == EvaluateCurrent
              bdp == ev_local.bdp
              target == EvaluateTarget(bdp.val)
              count == IF target - current < 4 THEN target - current ELSE 4
          IN  /\ ret.split =>
                    /\ ev_pc = "loaded" /\ bdp.some
                    /\ target > current
                    /\ ret.count = count
                    /\ ctl.file_size \div (current + count)
                          >= ctl.min_segment_size
                    /\ current_segments' = current + ret.count
                    /\ current_segments' <= ctl.max_segments
              /\ ~ret.split => current_segments' = current_segments
              /\ ev_pc = "loaded" /\ ~bdp.some => ~ret.split
              /\ ev_pc = "loaded" /\ bdp.some /\ target <= current =>
                    ~ret.split
              /\ ev_pc = "loaded" /\ bdp.some /\ target > current
                    /\ ctl.file_size \div (current + count)
                          < ctl.min_segment_size => ~ret.split]_vars

\* C27 witness: evaluate has returned Split with the count capped at 4 and
\* current_segments raised to below max_segments.
C27_SplitReturned ==
    /\ ctl_ret.op = "evaluate"
    /\ ctl_ret.ret.split
    /\ ctl_ret.ret.count = 4
    /\ ctl_ret.ret.optimal > ev_local.current + 4
    /\ current_segments = ev_local.current + 4
    /\ ctl.min_segment_size > 0

\* ====================================================================
\* Claims about download ids
\* ====================================================================

\* C28: the ids assigned by add_download are unique and strictly increasing
\* in the order of assignment, whatever the interleaving of the callers of
\* next_download_id, and the insert into the orchestrator's map never
\* replaces a transfer already there.
C28_IdsUniqueAndIncreasing ==
    /\ [](\A i, j \in 1 .. Len(id_log) : i < j => id_log[i] < id_log[j])
    /\ [](\A o, p \in Orchestrators :
             o # p => DOMAIN id_downloads[o] \cap DOMAIN id_downloads[p] = {})
    /\ [][\A o \in Orchestrators :
             id_local[o].some /\ ~id_local'[o].some =>
                 id_local[o].val \notin DOMAIN id_downloads[o]]_vars

\* C28 witness: the first three ids went to two orchestrators in turn and
\* all three transfers are in their maps, the first one paused.
C28_InterleavedAdds ==
    /\ Len(id_log) >= 3
    /\ \E o, p \in Orchestrators :
          /\ o # p
          /\ id_log[1] \in DOMAIN id_downloads[o]
          /\ id_downloads[o][id_log[1]] = "Paused"
          /\ id_log[2] \in DOMAIN id_downloads[p]
          /\ id_log[3] \in DOMAIN id_downloads[o]

\* ====================================================================
\* Claims about RateLimiter
\* ====================================================================

\* The limiter was made with Some(0) or None.
UnlimitedConfig ==
    ~bytes_per_second.some \/ BpsIsZero(bytes_per_second.val)

\* C29: a RateLimiter made by new or set_limit with Some(0) or None is
\* unlimited: is_limited() is false, try_acquire returns true for every
\* bytes and acquire returns without suspending; with Some(b), b > 0, it is
\* limited and acquire(bytes) waits for max(1, bytes / 16384) permits.
C29_ZeroOrNoneUnlimited ==
    lim_pc # "none" =>
        /\ UnlimitedConfig =>
              /\ ~IsLimited
              /\ lim_call.op = "try_acquire" => lim_call.ret
              /\ lim_call.op = "acquire" =>
                    /\ lim_call.ret
                    /\ lim_call.permits = 0
                    /\ ~lim_call.suspended
        /\ ~UnlimitedConfig =>
              /\ IsLimited
              /\ lim_call.op = "acquire" /\ lim_call.ret =>
                    lim_call.permits =
                        (IF lim_call.bytes \div 16384 < 1 THEN 1
                         ELSE lim_call.bytes \div 16384)

\* ====================================================================
\* Claims about Rebalancer
\* ====================================================================

\* check_and_rebalance returns in this step.
RebalanceReturns ==
    nops' = nops + 1 /\ last_call'.op = "check_and_rebalance"

\* The threshold of the call, as num / den, for the average speed sum / n
\* of the Active segments: average * slow_threshold_pct, or with a bdp
\* average * min(slow_threshold_pct * sqrt(bdp / 65536), 0.5). speed is
\* below it when speed * den < num.
BelowSlowThreshold(speed, bdp) ==
    LET active == { k \in 1 .. Len(msegments) :
                      msegments[k].status = "Active" }
        sum == SumOver([k \in active |-> msegments[k].speed], active)
        n == Cardinality(active)
        p == rb.slow_threshold_pct
        f == IF bdp.some THEN BdpFactor(bdp.val) ELSE 1
        capped == bdp.some /\ 2 * p.num * f > p.den
    IN  /\ n > 0
        /\ IF capped THEN speed * n * 2 < sum
           ELSE speed * n * p.den < sum * p.num * f

InProgress ==
    { k \in 1 .. Len(msegments) :
        msegments[k].status \notin {"Complete", "Error"} }

\* Segment k is in progress and slow: its speed is not 0 and is below 0.2
\* times the average speed of the segments in progress, and its remaining
\* is at least 512 KiB.
SlowSegment(k) ==
    /\ k \in InProgress
    /\ msegments[k].speed > 0
    /\ msegments[k].speed * 5 * Cardinality(InProgress)
          < SumOver([j \in InProgress |-> msegments[j].speed], InProgress)
    /\ SegRemaining(msegments[k]) >= 2 * DefaultMinSegmentSize

\* C31: on a manager of 4 segments under Rebalancer::new, with a slow
\* segment in progress, check_and_rebalance splits it: the segment count
\* becomes 5 and the call returns the new segment's id, 4.
C31_SlowSegmentRebalanced ==
    [][(/\ RebalanceReturns
        /\ Len(msegments) = 4
        /\ rb.min_segment_size = DefaultMinSegmentSize
        /\ \E k \in 1 .. Len(msegments) : SlowSegment(k))
       => /\ Len(msegments') = 5
          /\ rb_ret' = << 4 >>
          /\ \E k \in 1 .. 4 :
                /\ SlowSegment(k)
                /\ msegments'[k].range.end < msegments[k].range.end]_vars

\* split_segment returns in this step.
SplitReturns ==
    nops' = nops + 1 /\ last_call'.op = "split_segment"

\* The ids a pass returns are distinct and are those of the segments the
\* pass has added.
NewDistinctIds(ids) ==
    /\ \A i, j \in 1 .. Len(ids) : i # j => ids[i] # ids[j]
    /\ { ids[i] : i \in 1 .. Len(ids) }
          = Len(msegments) .. (Len(msegments') - 1)

\* C32: neither split_segment nor a rebalance pass raises the segment
\* count above max_segments: a step of either from at most max_segments
\* segments ends with at most max_segments segments, for the manager's limit
\* and, in a pass, the rebalancer's too; the ids a pass returns are
\* distinct ids of new segments.
C32_CountWithinMaxSegments ==
    [][/\ (SplitReturns \/ RebalanceReturns) =>
             /\ Len(msegments') >= Len(msegments)
             /\ Len(msegments) <= max_segments
                    => Len(msegments') <= max_segments
       /\ RebalanceReturns =>
             /\ Len(msegments) <= rb.max_segments
                    => Len(msegments') <= rb.max_segments
             /\ NewDistinctIds(rb_ret')]_vars

\* C32 witness: split_segment has returned a segment that brought the
\* count to max_segments.
C32_SplitReachedLimit ==
    /\ last_call.op = "split_segment"
    /\ last_call.ret.some
    /\ Len(msegments) = max_segments

\* C33: the target segment count evaluate computes from a bdp (the optimal
\* of the Split it returns) is the value optimal_segment_count yields for
\* the same bdp and the controller's file_size.
C33_TargetEqualsOptimalCount ==
    [][EvaluateReturns /\ ctl_ret'.ret.split =>
          OptimalSegmentCount(ev_local.bdp, ctl.file_size)
              = Some(ctl_ret'.ret.optimal)]_vars

\* ====================================================================
\* Claims about the workers and the work queue of
\* download_segmented_adaptive
\* ====================================================================

\* The worker tasks that have been started and have not left their loop.
RunningWorkers == { w \in Workers : wpc[w] \notin {"unspawned", "exited"} }

QueueIsSuffixOfPushed ==
    LET popped == Len(pushed) - Len(queue)
    IN  /\ popped >= 0
        /\ \A k \in 1 .. Len(queue) :
              queue[k] = [start |-> pushed[popped + k].start,
                          end |-> pushed[popped + k].end,
                          seg |-> pushed[popped + k].seg,
                          id |-> popped + k]

\* No item is held by two workers.
NoItemHeldTwice ==
    \A w1, w2 \in Workers :
        (w1 # w2 /\ witem[w1] # NoItem) => witem[w1].id # witem[w2].id

\* A worker that receives an item receives the head of a non-empty queue,
\* which loses exactly that item; nothing else shortens the queue.
PopTakesHead ==
    /\ \A w \in Workers :
          (witem'[w] # witem[w] /\ witem'[w] # NoItem) =>
              /\ queue # << >>
              /\ witem'[w] = Head(queue)
              /\ queue' = Tail(queue)
    /\ Len(queue') < Len(queue) =>
          \E w \in Workers : witem[w] = NoItem /\ witem'[w] = Head(queue)

\* A worker leaves its loop only with the queue empty and every tracker
\* complete.
LeavesOnlyWhenDrained ==
    \A w \in Workers :
        (wpc[w] # "exited" /\ wpc'[w] = "exited") =>
            queue = << >> /\ AllComplete

AssignedTo(i) ==
    { s \in MsSegments : segment_assignments[s] = SomeSource(i) }

\* C36: for every source, active_segments is the number of segments
\* assigned to it and not yet completed, and the unsigned counter never
\* wraps below 0: at the least, it lies between 0 and the number of
\* segments assigned to the source.
C36_ActiveCountsAssigned ==
    \A i \in MirrorIdx :
        /\ ~Wrapped(source_stats[i].active_segments)
        /\ source_stats[i].active_segments <= Cardinality(AssignedTo(i))

\* ====================================================================
\* Claims about DownloadQueue
\* ====================================================================

\* C37: no more than max_concurrent downloads run at one time, under any
\* interleaving of dequeue and complete calls: active_count <=
\* max_concurrent.
C37_ActiveWithinMaxConcurrent == dq_active <= dq_max

\* The queue is ordered by priority and, within one priority, by the order
\* of the insertions at that priority.
DqOrdered ==
    \A i, j \in 1 .. Len(dq_queue) :
        i < j =>
            \/ dq_queue[i].priority < dq_queue[j].priority
            \/ /\ dq_queue[i].priority = dq_queue[j].priority
               /\ dq_queue[i].seq < dq_queue[j].seq

\* A call of the operation returns in this step.
DqReturns(op) == dq_call' # dq_call /\ dq_call'.op = op

\* The queued downloads other than id, in queue order.
DqOthers(q, id) == SelectSeq(q, LAMBDA d : d.id # id)

\* What the calls do to the queue: dequeue returns the head and removes
\* it; cancel removes the downloads of the id and keeps the others;
\* reorder keeps the others, their number and order, and gives the first
\* download of the id its new priority; both leave the queue alone when
\* the id is not queued.
DqCallEffect ==
    /\ DqReturns("dequeue") /\ dq_call'.ret.some =>
          /\ dq_queue # << >>
          /\ dq_call'.ret.item = Head(dq_queue)
          /\ dq_queue' = Tail(dq_queue)
    /\ DqReturns("cancel") =>
          /\ dq_queue' = DqOthers(dq_queue, dq_call'.id)
          /\ PositionOf(dq_queue, dq_call'.id) = 0 => dq_queue' = dq_queue
    /\ DqReturns("reorder") =>
          /\ DqOthers(dq_queue', dq_call'.id) = DqOthers(dq_queue, dq_call'.id)
          /\ Len(dq_queue') = Len(dq_queue)
          /\ PositionOf(dq_queue, dq_call'.id) = 0 => dq_queue' = dq_queue
          /\ PositionOf(dq_queue, dq_call'.id) # 0 =>
                \E k \in 1 .. Len(dq_queue') :
                    /\ dq_queue'[k].id = dq_call'.id
                    /\ dq_queue'[k].seq = dq_seq'
                    /\ \E new_priority \in PriorityRanks :
                          dq_queue'[k].priority = new_priority

\* C38: after any sequence of enqueue, reorder, cancel and dequeue calls
\* the queue is ordered by priority (Critical first) and within a priority
\* by insertion; dequeue returns the head; reorder and cancel neither lose
\* nor duplicate another queued download and are no-ops for an id that is
\* not queued.
C38_QueueOrderedByPriority ==
    []DqOrdered /\ [][DqCallEffect]_vars

\* C38 witness: a reorder has moved a download behind another of its new
\* priority, and ahead of one of a lower priority.
C38_ReorderedBehindEqual ==
    /\ dq_call.op = "reorder"
    /\ Len(dq_queue) = 3
    /\ dq_queue[2].id = dq_call.id
    /\ dq_queue[2].seq = dq_seq
    /\ dq_queue[1].priority = dq_queue[2].priority
    /\ dq_queue[3].priority > dq_queue[2].priority
    /\ dq_queue[3].seq < dq_queue[2].seq

\* ====================================================================
\* Claims about the limit class of a pooled host
\* ====================================================================

\* What a call does to the class of host h and to unknown hosts, and what
\* can_connect and acquire return for a known host.
PoolClassEffect(h) ==
    LET op == pool_call'.op
        called == pool_call'.host = h
    IN  /\ hosts[h].known =>
              /\ hosts'[h].known
              /\ hosts'[h].is_http2 # hosts[h].is_http2 =>
                    op = "set_http2" /\ called /\ hosts'[h].is_http2
              /\ op = "acquire" /\ called =>
                    /\ hosts'[h].is_http2 = hosts[h].is_http2
                    /\ pool_call'.ret = CanConnect(hosts[h])
              /\ op = "can_connect" /\ called =>
                    /\ pool_call'.ret =
                          (hosts[h].active_connections < HostLimit(hosts[h]))
                    /\ hosts' = hosts
        /\ ~hosts[h].known =>
              /\ op = "acquire" /\ called =>
                    /\ hosts'[h].known
                    /\ hosts'[h].is_http2 = pool_call'.is_http2
              /\ ~(op = "acquire" /\ called) => hosts'[h] = hosts[h]
              /\ op \in {"set_http2", "release"} /\ called => hosts' = hosts

\* C39: the limit class of a host is fixed by the first acquire for it and
\* changed only by set_http2: a later acquire ignores its is_http2,
\* set_http2 and release on an unknown host change nothing, and for a known
\* host can_connect is true exactly when the next acquire returns true.
C39_ClassFixedByFirstAcquire ==
    [][\A h \in PoolHosts : PoolClassEffect(h)]_vars

\* C39 witness: an acquire with is_http2 = true on a host known as HTTP/1.1
\* has been granted beyond the HTTP/2 limit, the host still HTTP/1.1.
C39_LaterClassIgnored ==
    /\ pool_call.op = "acquire"
    /\ pool_call.is_http2
    /\ pool_call.ret
    /\ ~hosts[pool_call.host].is_http2
    /\ hosts[pool_call.host].active_connections > PerHostLimitH2

\* ====================================================================
\* Claims about the ids of SegmentManager
\* ====================================================================

\* A call of one of the operations returns in this step.
MgrReturns(ops) == nops' = nops + 1 /\ last_call'.op \in ops

\* C40: the segment stored at index i has id i (so ids are pairwise
\* distinct); update_segment, mark_complete, mark_error and split_segment
\* never shorten the list; and update_segment, mark_complete and mark_error
\* with an id that is not an index leave the list unchanged.
C40_IdsDenseAndStable ==
    /\ [](\A k \in 1 .. Len(msegments) : msegments[k].id = k - 1)
    /\ [][/\ MgrReturns({"update_segment", "mark_complete", "mark_error",
                         "split_segment"}) =>
                Len(msegments') >= Len(msegments)
          /\ (/\ MgrReturns({"update_segment", "mark_complete", "mark_error"})
              /\ ~HasSegment(msegments, last_call'.id)) =>
                msegments' = msegments]_vars

\* C40 witness: a call with the id one past the last index has returned on
\* a list whose last segment does not continue the one before it, that is,
\* a list a split has appended to.
C40_AbsentIdAfterSplit ==
    /\ last_call.op \in {"update_segment", "mark_complete", "mark_error"}
    /\ last_call.id = Len(msegments)
    /\ Len(msegments) >= 3
    /\ msegments[Len(msegments)].range.start
          < msegments[Len(msegments) - 1].range.start
    /\ \A k \in 1 .. Len(msegments) :
          msegments[k].range.start <= msegments[k].range.end

====
